---- MODULE Spec2Model ----
(***************************************************************************)
(* DroneBridge: the control channel of the auth client (internal/auth     *)
(* client.go, auth/client_apikey.go) and the MAVLink forwarder            *)
(* (internal/forwarder/forwarder.go).                                      *)
(*                                                                         *)
(* Spec     the control channel at the granularity of single socket       *)
(*          operations: Client.Start, keepaliveLoop, sendRefresh,          *)
(*          authenticate, the API-key operations, ForceReconnect, with the *)
(*          router and the network as environment.                         *)
(* FwdSpec  the forwarder: New, Start, receiveAndForward,                  *)
(*          sendMavlinkSessionHeartbeat, monitorIPChange, SetAuthClient.   *)
(***************************************************************************)
EXTENDS Integers, Sequences, FiniteSets, TLC

\* ---------------------------------------------------------------- bounds
\* the clock, in units of ipChangeThreshold (10 s)
MaxNow == 1
\* TCP connections open or held by an operation at one time
MaxConn == 1
\* requests in flight on one connection
MaxQ == 2
\* distinct session tokens the router hands out
NumTokens == 2
\* frames the listener delivers
MaxFrames == 2
\* MAVLink sequence numbers 0..MaxSeq
MaxSeq == 1
\* SESSION_HEARTBEAT messages built
MaxHB == 1
\* bytes of the API key in an API_KEY_RESPONSE
MaxKeyLen == 2
\* length of the longest reply to SESSION_REFRESH a read returns cut short
MaxAckLen == 3

\* ------------------------------------------------------ program constants
ErrInvalidHMAC == 0
ErrRateLimited == 3
ErrSessionExpired == 6
ErrInvalidToken == 7
ResultSuccess == 0
ResultFailure == 1
\* type byte of API_KEY_RESPONSE (0x21)
MsgAPIKeyResponse == 33
\* type byte of SESSION_REFRESH_ACK (0x13)
MsgSessionRefreshAck == 19
ipChangeThreshold == 1
\* the keepalive loop's refresh period when the session has none, in seconds
DefaultRefreshInterval == 30

NoConn == 0
NoToken == 0
ZeroTime == 0 - 1

\* system id of a ground station: frames from it are not forwarded
GCSSystemID == 255
\* OutSystemID used when no flight controller was seen, and after a rebuild
DefaultSysID == 1
\* hex characters of a 32-byte session token
HexTokenLen == 64
NoSeq == 0 - 1

ConnIds == 1..MaxConn
\* system ids on the listener: two flight controllers and a ground station
FCSysIDs == {DefaultSysID, DefaultSysID + 1}
SysIDs == FCSysIDs \cup {GCSSystemID}
Seqs == 0..MaxSeq
Frames == [sys : SysIDs, seq : Seqs, msg : {"HEARTBEAT", "OTHER"}]
NoFrame == [sys |-> 0, seq |-> 0]
NoMsg == [tok |-> 0, exp |-> 0, seq |-> 0]
Tokens == 1..NumTokens
\* expiry times the router hands out: one the clock reaches and one past
\* the clock's range
MaxExp == MaxNow + 1
ExpVals == {1, MaxExp}
\* refresh intervals the router hands out, in seconds
Intervals == {DefaultRefreshInterval, 2 * DefaultRefreshInterval}
ErrCodes == {ErrInvalidHMAC, ErrRateLimited, ErrSessionExpired, ErrInvalidToken}
IPs == {"ipA", "ipB"}

VARIABLES
  now,              \* wall clock
  localIP,          \* the host's current outbound IP
  sessionToken,     \* Client.sessionToken (NoToken = "")
  expiresAt,        \* Client.expiresAt
  refreshInterval,  \* Client.refreshInterval
  keepaliveInterval, \* Client.keepaliveInterval (auth.keepalive_interval), in seconds
  conn,             \* Client.conn (NoConn = nil)
  running,          \* Client.running
  tcpMu,            \* Client.tcpMu: "free" or the holder
  previousLocalIP,  \* Client.previousLocalIP ("" before the first dial)
  lastIPChangeTime, \* Client.lastIPChangeTime (ZeroTime = time.Time{})
  open,             \* connections not yet closed by the client
  broken,           \* open connections the network has cut
  wire,             \* per connection: the requests written whose replies were not read yet
  pc,               \* position of each task
  lconn,            \* the local variable conn of the running operation
  ret,              \* the call site authenticate() returns to
  rerr,             \* the error sendRefresh returned
  parsedAck,        \* the acknowledgement the keepalive task parsed last
  networkErrors,    \* number of calls of Client.OnNetworkError
  ipHandled,        \* ForceReconnect() ran for an IP change and sendRefresh() was not called since
  tickerPeriod,     \* period of keepaliveLoop's refreshTicker, 0 before time.NewTicker
  recConn,          \* the local variable conn of TriggerSessionRecovery()
  authEnabled,      \* cfg.Auth.Enabled
  mainPc,           \* position of main()
  authClient,       \* Forwarder.authClient: "nil", "own" (made by New) or "main"
  startClient,      \* the value of f.authClient that Start() tested
  waited,           \* how Start()'s wait ended: "none", "grace" or "heartbeat"
  monitoring,       \* monitorIPChange is running
  loops,            \* receiveAndForward is running
  hbPc,             \* position of sendMavlinkSessionHeartbeat
  hbMsg,            \* the SESSION_HEARTBEAT it is about to write
  firstSent,        \* its local firstSent
  sequence,         \* its local sequence
  hbCount,          \* SESSION_HEARTBEAT messages written to the sender
  udpHeartbeatSent, \* items in the channel Forwarder.udpHeartbeatSent (capacity 1)
  isHealthy,        \* Forwarder.isHealthy
  previousIP,       \* Forwarder.previousIP
  senderOpen,       \* Forwarder.senderNode is not closed
  senderSysID,      \* OutSystemID of Forwarder.senderNode
  rebuilt,          \* the sender was replaced after an IP change
  pixhawkSysID,     \* web bridge.pixhawkSysID
  webConnected,     \* web bridge.connected
  lastSeqNum,       \* Forwarder.lastSeqNum (NoSeq = no entry)
  sent,             \* metrics: frames sent
  failedUnhealthy,  \* metrics: frames dropped while unhealthy
  failedSend,       \* metrics: frames whose write failed
  failedPackets,    \* metrics: FailedPackets, summed over the message types
  forwardedCount,   \* receiveAndForward's local forwardedCount
  nRecv,            \* frames taken from the listener's event channel
  rx,               \* system id and sequence number of the last frame taken
  rxOut,            \* what receiveAndForward did with it
  registerFlag,     \* main: the -register flag
  allowMissing,     \* cfg.Ethernet.AllowMissingPixhawk
  regState,         \* how Client.Register() went: "none" while it did not run
  regConn,          \* the connection Register() dialled and left open (NoConn: none)
  discovery,        \* main's discovery step: "pending", "connected" or "timeout"
  monPc,            \* position of checkIP() in monitorIPChange
  stopCh,           \* Forwarder.stopCh and Client.stopCh are closed
  srvEvents,        \* the event channel receiveFromServer reads: "off", "current", "stale", "done"
  srvOut,           \* what became of the last frame the router sent to the sender
  oldOpen,          \* the node f.senderNode named before the last rebuild is still open
  wroteOn,          \* the node the last heartbeat (hb) and the last frame (rx) were written on
  parse,            \* an API_KEY_RESPONSE value and what ParseAPIKeyResponse made of its encodings
  mu,               \* Client.mu (sync.RWMutex): the tasks holding it for reading, and the writer
  fmu,              \* Forwarder.mu: "free" or the holder
  lk,               \* per task: the lock operations left of the call it is in
  keepaliveLoops,   \* keepaliveLoop goroutines Start() has started
  initialAuths      \* authenticate() calls Start() has made

ctlVars == <<now, localIP, keepaliveInterval, sessionToken, expiresAt, refreshInterval, conn, running,
             tcpMu, previousLocalIP, lastIPChangeTime, open, broken,
             wire, pc, lconn, ret, rerr, parsedAck, networkErrors, ipHandled,
             tickerPeriod, recConn>>

startVars == <<authEnabled, mainPc, authClient, startClient, waited, monitoring, loops>>
hbVars == <<hbPc, hbMsg, firstSent, sequence, hbCount, udpHeartbeatSent>>
senderVars == <<isHealthy, previousIP, senderOpen, senderSysID, rebuilt>>
webVars == <<pixhawkSysID, webConnected>>
rxVars == <<lastSeqNum, sent, failedUnhealthy, failedSend, failedPackets, forwardedCount,
           nRecv, rx, rxOut>>
bootVars == <<registerFlag, allowMissing, regState, regConn, discovery>>
nodeVars == <<srvEvents, srvOut, oldOpen, wroteOn>>
lockVars == <<mu, fmu, lk>>
startCalls == <<keepaliveLoops, initialAuths>>
auxVars == <<stopCh, nodeVars, parse, lockVars, startCalls>>
fwdVars == <<startVars, hbVars, senderVars, webVars, rxVars, bootVars, monPc, auxVars>>

vars == <<ctlVars, fwdVars>>

envVars == <<now, localIP, keepaliveInterval>>
sessVars == <<sessionToken, expiresAt, refreshInterval>>
connVars == <<conn, open, broken, previousLocalIP, lastIPChangeTime>>
cbVars == <<networkErrors, ipHandled, tickerPeriod, recConn>>

\* --------------------------------------------------------------- the locks
\* the tasks that take tcpMu, Client.mu or Forwarder.mu: the keepalive loop
\* (sendRefresh), a web handler (the API-key operations), the IP monitor
\* (checkIP), a caller into the forwarder (the OnNetworkError callback or
\* SetAuthClient) and the heartbeat loop (GetSessionInfo)
LockTasks == {"K", "W", "M", "C", "H"}
Idle == << >>
NoHolder == [r |-> {}, w |-> "free"]

\* Start() was not called
NoStart == keepaliveLoops = 0 /\ initialAuths = 0

LocksInit ==
  /\ mu = NoHolder
  /\ fmu = "free"
  /\ lk = [t \in LockTasks |-> Idle]

\* ------------------------------------------------------------- the socket
NoRep == [res |-> "none", code |-> 0, tok |-> 0, exp |-> 0, ivl |-> 0]
Success(tok, exp, ivl) == [res |-> "success", code |-> 0, tok |-> tok, exp |-> exp, ivl |-> ivl]
Failure(code) == [res |-> "failure", code |-> code, tok |-> 0, exp |-> 0, ivl |-> 0]

\* what the router may answer to a request
RepliesFor(op) ==
  CASE op = "AUTH_INIT" -> {Success(0, 0, 0)}
    [] op = "AUTH_RESPONSE" ->
         {Success(tok, exp, ivl) : tok \in Tokens, exp \in ExpVals, ivl \in Intervals}
           \cup {Success(NoToken, 1, DefaultRefreshInterval), Failure(ErrInvalidHMAC)}
    [] op = "SESSION_NEW" ->
         {Success(tok, exp, ivl) : tok \in Tokens, exp \in ExpVals, ivl \in Intervals}
           \cup {Failure(ErrRateLimited)}
    [] op = "SESSION_REFRESH" ->
         {Success(0, exp, ivl) : exp \in ExpVals, ivl \in Intervals}
           \cup {Failure(code) : code \in ErrCodes}
    [] OTHER -> {Success(0, 0, 0)}

NoErr == [isErr |-> FALSE, code |-> 0, cause |-> "none", ivl |-> 0]
RefreshError(code, cause) == [isErr |-> TRUE, code |-> code, cause |-> cause, ivl |-> 0]

Usable(c) == c \in open /\ c \notin broken

\* a task that writes a new request has given up on its earlier ones
MarkStale(w, t) ==
  [c \in ConnIds |->
     [i \in 1..Len(w[c]) |->
        IF w[c][i].by = t THEN [w[c][i] EXCEPT !.stale = TRUE] ELSE w[c][i]]]

\* conn.Write(packet) on a usable connection
ConnWrite(t, c, op) ==
  /\ Usable(c)
  /\ Len(wire[c]) < MaxQ
  /\ wire' = [MarkStale(wire, t) EXCEPT
                ![c] = Append(@, [op |-> op, by |-> t, stale |-> FALSE])]

\* the reply conn.Read(buf) can return: the router answers the requests of
\* a connection in order, so it is the reply to the oldest request whose
\* reply was not read yet
HasReply(c) == Usable(c) /\ Len(wire[c]) > 0
Reply(c) == Head(wire[c])

\* conn.Read(buf) returning that reply: it arrived before the deadline
ConnRead(c) ==
  /\ HasReply(c)
  /\ wire' = [wire EXCEPT ![c] = Tail(@)]

\* conn.Read(buf) failing: the connection is gone, or the deadline expires
\* before the reply arrives; the reply stays due on the connection
ConnReadFails(c) == c = NoConn \/ c \in ConnIds

\* conn.Close()
ClosedWire(w, c) == IF c = NoConn THEN w ELSE [w EXCEPT ![c] = <<>>]

\* net.DialTimeout returns a new connection object: one that is neither
\* open (o: the connections left open) nor still held in a local variable
FreeConns(o) == ConnIds \ (o \cup {lconn["K"], lconn["W"], recConn})
NewConn(o) == CHOOSE c \in FreeConns(o) : \A d \in FreeConns(o) : c <= d

\* ---------------------------------------------------------------- Init
\* the auth client after NewClient
NewClient(keepalive) ==
  /\ now = 0
  /\ keepaliveInterval = keepalive
  /\ localIP = "ipA"
  /\ sessionToken = NoToken
  /\ expiresAt = 0
  /\ refreshInterval = 0
  /\ conn = NoConn
  /\ running = FALSE
  /\ tcpMu = "free"
  /\ previousLocalIP = ""
  /\ lastIPChangeTime = ZeroTime
  /\ open = {}
  /\ broken = {}
  /\ wire = [c \in ConnIds |-> <<>>]
  /\ pc = [t \in {"K", "W"} |-> IF t = "K" THEN "start" ELSE "idle"]
  /\ lconn = [t \in {"K", "W"} |-> NoConn]
  /\ ret = [t \in {"K", "W"} |-> IF t = "K" THEN "start" ELSE "none"]
  /\ rerr = NoErr
  /\ parsedAck = NoRep
  /\ networkErrors = 0
  /\ tickerPeriod = 0
  /\ recConn = NoConn
  /\ ipHandled = FALSE

\* the client of a configuration that keeps the sample's keepalive_interval
ClientInit == NewClient(DefaultRefreshInterval)

\* nothing is stopped, receiveFromServer does not run, no sender was
\* replaced
NodeInit ==
  /\ stopCh = FALSE
  /\ srvEvents = "off"
  /\ srvOut = "none"
  /\ oldOpen = FALSE
  /\ wroteOn = [hb |-> "none", rx |-> "none"]

\* an APIKeyResponse struct; st is "none" while nothing was parsed and
\* "error" when the parser returned an error
APIKeyResponse(st, result, errorCode, apiKey, expires) ==
  [st |-> st, result |-> result, errorCode |-> errorCode, apiKey |-> apiKey,
   expiresAt |-> expires]
NoResponse == APIKeyResponse("none", 0, 0, <<>>, 0)
ParseError == APIKeyResponse("error", 0, 0, <<>>, 0)
\* no API_KEY_RESPONSE is being parsed
NoParse == [val |-> NoResponse, canon |-> NoResponse, legacy |-> NoResponse]

\* the forwarder's state before forwarder.New; d is the system id the
\* discovery step of main gave to web.HandleHeartbeat, 0 when it saw none
ForwarderInit(enabled, d) ==
  /\ authEnabled = enabled
  /\ mainPc = "discovered"
  /\ authClient = "nil"
  /\ startClient = "nil"
  /\ waited = "none"
  /\ monitoring = FALSE
  /\ loops = FALSE
  /\ hbPc = "off"
  /\ hbMsg = NoMsg
  /\ firstSent = FALSE
  /\ sequence = 0
  /\ hbCount = 0
  /\ udpHeartbeatSent = 0
  /\ isHealthy = FALSE
  /\ previousIP = ""
  /\ senderOpen = FALSE
  /\ senderSysID = 0
  /\ rebuilt = FALSE
  /\ pixhawkSysID = d
  /\ webConnected = (d # 0)
  /\ lastSeqNum = [i \in SysIDs |-> NoSeq]
  /\ sent = 0
  /\ failedUnhealthy = 0
  /\ failedSend = 0
  /\ failedPackets = 0
  /\ forwardedCount = 0
  /\ nRecv = 0
  /\ rx = NoFrame
  /\ rxOut = "none"
  /\ registerFlag = FALSE
  /\ allowMissing = (d = 0)
  /\ regState = "none"
  /\ regConn = NoConn
  /\ discovery = IF d = 0 THEN "timeout" ELSE "connected"
  /\ monPc = "idle"
  /\ NodeInit

Init == ClientInit /\ ForwarderInit(TRUE, 0) /\ parse = NoParse /\ LocksInit /\ NoStart

\* ------------------------------------------------------- Client.Start
\* Start(): a valid session left by an earlier flow skips the handshake,
\* otherwise authenticate() runs on the caller's task
Start ==
  /\ pc["K"] = "start"
  /\ ~running
  /\ IF sessionToken # NoToken /\ now < expiresAt
       THEN /\ pc' = [pc EXCEPT !["K"] = "started"]
            /\ UNCHANGED initialAuths
       ELSE /\ pc' = [pc EXCEPT !["K"] = "auth_begin"]
            /\ initialAuths' = initialAuths + 1
  /\ ret' = [ret EXCEPT !["K"] = "start"]
  /\ UNCHANGED <<envVars, sessVars, connVars, running, tcpMu, wire, lconn, rerr, parsedAck,
                 cbVars, startVars, hbVars, senderVars, webVars, rxVars,
                 bootVars, monPc, stopCh, nodeVars, parse, lockVars, keepaliveLoops>>

\* Start() after the handshake: running = true; go keepaliveLoop()
GoKeepalive(t) ==
  /\ pc[t] = "started"
  /\ running' = TRUE
  /\ keepaliveLoops' = keepaliveLoops + 1
  /\ pc' = [pc EXCEPT ![t] = "idle"]
  /\ UNCHANGED <<envVars, sessVars, connVars, tcpMu, wire, lconn, ret, rerr, parsedAck,
                 cbVars, startVars, hbVars, senderVars, webVars, rxVars,
                 bootVars, monPc, stopCh, nodeVars, parse, lockVars, initialAuths>>

StartKeepalive == GoKeepalive("K")

\* --------------------------------------------------- Client.authenticate
\* authenticate() returns an error
AuthFail(t) == pc' = [pc EXCEPT ![t] = "auth_err"]

\* c.mu.Lock(); conn := c.conn; c.mu.Unlock()
AuthBegin(t) ==
  /\ pc[t] = "auth_begin"
  /\ lconn' = [lconn EXCEPT ![t] = conn]
  /\ pc' = [pc EXCEPT ![t] = IF conn = NoConn THEN "auth_dial" ELSE "auth_w1"]
  /\ UNCHANGED <<envVars, sessVars, connVars, running, tcpMu, wire, ret, rerr, parsedAck,
                 cbVars, fwdVars>>

\* net.DialTimeout; on success c.conn, previousLocalIP and lastIPChangeTime are set
AuthDial(t) ==
  /\ pc[t] = "auth_dial"
  /\ \/ /\ FreeConns(open) # {}
        /\ conn' = NewConn(open)
        /\ open' = open \cup {NewConn(open)}
        /\ previousLocalIP' = localIP
        /\ lastIPChangeTime' = now
        /\ lconn' = [lconn EXCEPT ![t] = NewConn(open)]
        /\ pc' = [pc EXCEPT ![t] = "auth_w1"]
        /\ UNCHANGED broken
     \/ /\ AuthFail(t)
        /\ UNCHANGED <<connVars, lconn>>
  /\ UNCHANGED <<envVars, sessVars, running, tcpMu, wire, ret, rerr, parsedAck, cbVars, fwdVars>>

\* conn.Write(AUTH_INIT): tcpMu is not taken
AuthWriteInit(t) ==
  /\ pc[t] = "auth_w1"
  /\ \/ /\ ConnWrite(t, lconn[t], "AUTH_INIT")
        /\ pc' = [pc EXCEPT ![t] = "auth_r1"]
     \/ /\ ~Usable(lconn[t])
        /\ AuthFail(t)
        /\ UNCHANGED wire
  /\ UNCHANGED <<envVars, sessVars, connVars, running, tcpMu, lconn, ret, rerr, parsedAck,
                 cbVars, fwdVars>>

\* conn.Read (10 s deadline) + ParseAuthChallenge
AuthReadChallenge(t) ==
  /\ pc[t] = "auth_r1"
  /\ \/ /\ ConnRead(lconn[t])
        /\ IF Reply(lconn[t]).op = "AUTH_INIT"
             THEN pc' = [pc EXCEPT ![t] = "auth_w2"]
             ELSE AuthFail(t)
     \/ /\ ConnReadFails(lconn[t])
        /\ AuthFail(t)
        /\ UNCHANGED wire
  /\ UNCHANGED <<envVars, sessVars, connVars, running, tcpMu, lconn, ret, rerr, parsedAck,
                 cbVars, fwdVars>>

\* conn.Write(AUTH_RESPONSE)
AuthWriteResponse(t) ==
  /\ pc[t] = "auth_w2"
  /\ \/ /\ ConnWrite(t, lconn[t], "AUTH_RESPONSE")
        /\ pc' = [pc EXCEPT ![t] = "auth_r2"]
     \/ /\ ~Usable(lconn[t])
        /\ AuthFail(t)
        /\ UNCHANGED wire
  /\ UNCHANGED <<envVars, sessVars, connVars, running, tcpMu, lconn, ret, rerr, parsedAck,
                 cbVars, fwdVars>>

\* what a successful AUTH_ACK stores
AuthAckStore(ack) ==
  /\ sessionToken' = ack.tok
  /\ expiresAt' = ack.exp
  /\ refreshInterval' = ack.ivl

\* conn.Read (10 s deadline) + ParseAuthAck; a success ack that carries a
\* token replaces the session
AuthReadAck(t) ==
  /\ pc[t] = "auth_r2"
  /\ \/ /\ ConnRead(lconn[t])
        /\ IF Reply(lconn[t]).op # "AUTH_RESPONSE"
             THEN /\ AuthFail(t)
                  /\ UNCHANGED <<sessVars, parsedAck>>
             ELSE \E r \in RepliesFor("AUTH_RESPONSE") :
                    /\ parsedAck' = r
                    /\ IF r.res = "success" /\ r.tok # NoToken
                         THEN /\ AuthAckStore(r)
                              /\ pc' = [pc EXCEPT ![t] = "auth_ok"]
                         ELSE /\ AuthFail(t)
                              /\ UNCHANGED sessVars
     \/ /\ ConnReadFails(lconn[t])
        /\ AuthFail(t)
        /\ UNCHANGED <<wire, sessVars, parsedAck>>
  /\ UNCHANGED <<envVars, connVars, running, tcpMu, lconn, ret, rerr, cbVars, fwdVars>>

\* the caller of authenticate() takes the result: Start() turns an error
\* into a fatal exit of main, the keepalive loop only logs it
AuthReturn(t) ==
  /\ pc[t] \in {"auth_ok", "auth_err"}
  /\ pc' = [pc EXCEPT ![t] = IF ret[t] = "start"
                               THEN (IF pc[t] = "auth_ok" THEN "started" ELSE "exit")
                               ELSE "idle"]
  /\ parsedAck' = NoRep
  /\ lconn' = [lconn EXCEPT ![t] = NoConn]
  /\ ret' = [ret EXCEPT ![t] = "none"]
  /\ UNCHANGED <<envVars, sessVars, connVars, running, tcpMu, wire, rerr,
                 cbVars, fwdVars>>

\* --------------------------------------------------- Client.reconnectTCP
\* closes c.conn if there is one, dials, and on success installs the new
\* connection; lastIPChangeTime is set when the local IP differs from the
\* previous one.  A failed dial leaves c.conn as it was (closed).
ReconnectTCP(ok) ==
  /\ IF ok
       THEN /\ FreeConns(open \ {conn}) # {}
            /\ conn' = NewConn(open \ {conn})
            /\ open' = (open \ {conn}) \cup {NewConn(open \ {conn})}
            /\ lastIPChangeTime' = IF previousLocalIP # "" /\ previousLocalIP # localIP
                                     THEN now ELSE lastIPChangeTime
            /\ previousLocalIP' = localIP
       ELSE /\ open' = open \ {conn}
            /\ UNCHANGED <<conn, lastIPChangeTime, previousLocalIP>>
  /\ broken' = broken \ {conn}
  /\ wire' = ClosedWire(wire, conn)

\* ---------------------------------------------------- Client.sendRefresh
\* every return of sendRefresh releases tcpMu (defer)
RefreshReturn(t, e) ==
  /\ rerr' = e
  /\ tcpMu' = "free"
  /\ lconn' = [lconn EXCEPT ![t] = NoConn]
  /\ pc' = [pc EXCEPT ![t] = "ref_done"]

\* the keepalive loop's ticker case calls sendRefresh(): tcpMu.Lock(), the
\* read of token/conn/lastIPChangeTime and the early returns
SendRefreshLock(t) ==
  /\ pc[t] = "idle"
  /\ running
  /\ tcpMu = "free"
  /\ IF lastIPChangeTime # ZeroTime /\ now - lastIPChangeTime < ipChangeThreshold
       THEN RefreshReturn(t, [NoErr EXCEPT !.cause = "skip"])
       ELSE IF sessionToken = NoToken
         THEN RefreshReturn(t, RefreshError(ErrInvalidToken, "notoken"))
         ELSE /\ tcpMu' = t
              /\ lconn' = [lconn EXCEPT ![t] = conn]
              /\ pc' = [pc EXCEPT ![t] = IF conn = NoConn THEN "ref_reconn" ELSE "ref_write"]
              /\ UNCHANGED rerr
  /\ ipHandled' = FALSE
  /\ UNCHANGED <<envVars, sessVars, connVars, running, wire, ret, networkErrors,
                 tickerPeriod, recConn, fwdVars>>
  /\ UNCHANGED parsedAck

\* conn == nil: reconnectTCP() inside the lock
SendRefreshReconnect(t) ==
  /\ pc[t] = "ref_reconn"
  /\ \/ /\ ReconnectTCP(TRUE)
        /\ lconn' = [lconn EXCEPT ![t] = conn']
        /\ pc' = [pc EXCEPT ![t] = "ref_write"]
        /\ UNCHANGED <<rerr, parsedAck, tcpMu>>
     \/ /\ ReconnectTCP(FALSE)
        /\ RefreshReturn(t, RefreshError(0, "reconnect"))
  /\ UNCHANGED <<envVars, sessVars, running, ret, cbVars, fwdVars>>
  /\ UNCHANGED parsedAck

\* conn.Write(SESSION_REFRESH)
SendRefreshWrite(t) ==
  /\ pc[t] = "ref_write"
  /\ \/ /\ ConnWrite(t, lconn[t], "SESSION_REFRESH")
        /\ pc' = [pc EXCEPT ![t] = "ref_read"]
        /\ UNCHANGED <<rerr, parsedAck, tcpMu, lconn>>
     \/ /\ ~Usable(lconn[t])
        /\ RefreshReturn(t, RefreshError(0, "write"))
        /\ UNCHANGED wire
  /\ UNCHANGED <<envVars, sessVars, connVars, running, ret, cbVars, fwdVars>>
  /\ UNCHANGED parsedAck

\* what a successful SESSION_REFRESH_ACK stores: expiresAt only; the
\* variant stores the acknowledgement's interval as well
RefreshAckStore_WithInterval(ack) ==
  /\ expiresAt' = ack.exp
  /\ refreshInterval' = ack.ivl
  /\ UNCHANGED sessionToken
RefreshAckStore(ack) ==
  /\ expiresAt' = ack.exp
  /\ UNCHANGED <<sessionToken, refreshInterval>>

\* conn.Read (5 s deadline) + ParseSessionRefreshAck + the update
SendRefreshRead(t) ==
  /\ pc[t] = "ref_read"
  /\ \/ /\ ConnRead(lconn[t])
        /\ IF Reply(lconn[t]).op # "SESSION_REFRESH"
             THEN /\ RefreshReturn(t, RefreshError(0, "parse"))
                  /\ UNCHANGED <<sessVars, parsedAck>>
             ELSE \E r \in RepliesFor("SESSION_REFRESH") :
                    /\ parsedAck' = r
                    /\ IF r.res # "success"
                         THEN /\ RefreshReturn(t, RefreshError(r.code, "reject"))
                              /\ UNCHANGED sessVars
                         ELSE /\ RefreshAckStore(r)
                              /\ RefreshReturn(t, [NoErr EXCEPT !.cause = "ack"])
     \/ /\ ConnReadFails(lconn[t])
        /\ RefreshReturn(t, RefreshError(0, "read"))
        /\ UNCHANGED <<wire, sessVars, parsedAck>>
  /\ UNCHANGED <<envVars, connVars, running, ret, cbVars, fwdVars>>

\* -------------------------------------------------- Client.keepaliveLoop
\* the classification of sendRefresh's error
NeedReauth(e) == e.isErr /\ (e.code = ErrInvalidToken \/ e.code = ErrSessionExpired)
\* variant: every error of sendRefresh closes the connection
IsNetworkError_Closing(e) == e.isErr
IsNetworkError(e) == e.isErr /\ ~NeedReauth(e)

\* after sendRefresh returned: nil goes back to the ticker; a network error
\* closes the connection; 0x06/0x07 goes to authenticate()
KeepaliveClassify ==
  /\ pc["K"] = "ref_done"
  /\ rerr' = NoErr
  /\ parsedAck' = NoRep
  /\ IF ~rerr.isErr
       THEN /\ pc' = [pc EXCEPT !["K"] = "idle"]
            /\ UNCHANGED <<conn, open, broken, wire, ret>>
       ELSE IF IsNetworkError(rerr)
         THEN /\ conn' = NoConn
              /\ open' = open \ {conn}
              /\ broken' = broken \ {conn}
              /\ wire' = ClosedWire(wire, conn)
              /\ pc' = [pc EXCEPT !["K"] = "ka_net"]
              /\ UNCHANGED ret
         ELSE /\ pc' = [pc EXCEPT !["K"] = "auth_begin"]
              /\ ret' = [ret EXCEPT !["K"] = "reauth"]
              /\ UNCHANGED <<conn, open, broken, wire>>
  /\ UNCHANGED <<envVars, sessVars, previousLocalIP, lastIPChangeTime, running,
                 tcpMu, lconn, cbVars, fwdVars>>

\* network error: reconnectTCP() while the token is valid locally,
\* authenticate() when it is not or when the reconnect fails
KeepaliveNetworkError ==
  /\ pc["K"] = "ka_net"
  /\ IF sessionToken # NoToken /\ now < expiresAt
       THEN \/ /\ ReconnectTCP(TRUE)
               /\ pc' = [pc EXCEPT !["K"] = "idle"]
               /\ UNCHANGED ret
            \/ /\ ReconnectTCP(FALSE)
               /\ pc' = [pc EXCEPT !["K"] = "auth_begin"]
               /\ ret' = [ret EXCEPT !["K"] = "network"]
       ELSE /\ pc' = [pc EXCEPT !["K"] = "auth_begin"]
            /\ ret' = [ret EXCEPT !["K"] = "network"]
            /\ UNCHANGED <<connVars, wire>>
  /\ UNCHANGED <<envVars, sessVars, running, tcpMu, lconn, rerr, parsedAck, cbVars, fwdVars>>

\* ------------------------------- RequestAPIKey / Revoke / Status / Delete
\* the four operations lock, write, read and unlock in the same way; only
\* the message type differs
APIKeyReturn ==
  /\ tcpMu' = "free"
  /\ lconn' = [lconn EXCEPT !["W"] = NoConn]
  /\ pc' = [pc EXCEPT !["W"] = "idle"]

\* tcpMu.Lock(), the read of token/conn/running; an operation that returns
\* early (not running, no session) touches nothing
APIKeyLock ==
  /\ pc["W"] = "idle"
  /\ tcpMu = "free"
  /\ running
  /\ sessionToken # NoToken
  /\ tcpMu' = "W"
  /\ lconn' = [lconn EXCEPT !["W"] = conn]
  /\ pc' = [pc EXCEPT !["W"] = IF conn = NoConn THEN "w_reconn" ELSE "w_write"]
  /\ UNCHANGED <<envVars, sessVars, connVars, running, wire, ret, rerr, parsedAck, cbVars, fwdVars>>

APIKeyReconnect ==
  /\ pc["W"] = "w_reconn"
  /\ \/ /\ ReconnectTCP(TRUE)
        /\ lconn' = [lconn EXCEPT !["W"] = conn']
        /\ pc' = [pc EXCEPT !["W"] = "w_write"]
        /\ UNCHANGED tcpMu
     \/ /\ ReconnectTCP(FALSE)
        /\ APIKeyReturn
  /\ UNCHANGED <<envVars, sessVars, running, ret, rerr, parsedAck, cbVars, fwdVars>>

\* conn.Write(packet); a write error returns
APIKeyWrite ==
  /\ pc["W"] = "w_write"
  /\ \/ /\ ConnWrite("W", lconn["W"], "API_KEY")
        /\ pc' = [pc EXCEPT !["W"] = "w_read"]
        /\ UNCHANGED <<tcpMu, lconn>>
     \/ /\ ~Usable(lconn["W"])
        /\ APIKeyReturn
        /\ UNCHANGED wire
  /\ UNCHANGED <<envVars, sessVars, connVars, running, ret, rerr, parsedAck, cbVars, fwdVars>>

\* conn.Read (3 s deadline) returns a reply; tcpMu.Unlock(); the reply is parsed
APIKeyReadReply ==
  /\ pc["W"] = "w_read"
  /\ ConnRead(lconn["W"])
  /\ APIKeyReturn
  /\ UNCHANGED <<envVars, sessVars, connVars, running, ret, rerr, parsedAck, cbVars, fwdVars>>

\* conn.Read fails (error or deadline); tcpMu.Unlock(); "timeout waiting for ..."
APIKeyReadError ==
  /\ pc["W"] = "w_read"
  /\ ConnReadFails(lconn["W"])
  /\ APIKeyReturn
  /\ UNCHANGED <<envVars, sessVars, connVars, running, wire, ret, rerr, parsedAck, cbVars, fwdVars>>

\* ------------------------------------------------- Client.ForceReconnect
\* what ForceReconnect() does to the client under tcpMu and mu: c.conn is
\* closed and set to nil, the session fields are not touched
DropConn_AndSession ==
  /\ conn' = NoConn
  /\ open' = open \ {conn}
  /\ broken' = broken \ {conn}
  /\ wire' = ClosedWire(wire, conn)
  /\ sessionToken' = NoToken
  /\ expiresAt' = 0
  /\ UNCHANGED <<refreshInterval, previousLocalIP, lastIPChangeTime>>
DropConn ==
  /\ conn' = NoConn
  /\ open' = open \ {conn}
  /\ broken' = broken \ {conn}
  /\ wire' = ClosedWire(wire, conn)
  /\ UNCHANGED <<sessVars, previousLocalIP, lastIPChangeTime>>

ForceReconnect ==
  /\ tcpMu = "free"
  /\ conn # NoConn
  /\ DropConn
  /\ UNCHANGED <<envVars, running, tcpMu, pc, lconn, ret, rerr, parsedAck, cbVars, fwdVars>>

\* ------------------------------------------------ the network and the clock
\* the network cuts a connection
NetworkCut(c) ==
  /\ Usable(c)
  /\ broken' = broken \cup {c}
  /\ UNCHANGED <<envVars, sessVars, conn, open, previousLocalIP, lastIPChangeTime,
                 running, tcpMu, wire, pc, lconn, ret, rerr, parsedAck, cbVars, fwdVars>>

\* the host's outbound IP changes (WAN/4G/WiFi transition)
IPChange(ip) ==
  /\ ip # localIP
  /\ localIP' = ip
  /\ UNCHANGED <<now, keepaliveInterval, sessVars, connVars, running, tcpMu, wire, pc, lconn, ret, rerr, parsedAck,
                 cbVars, fwdVars>>

Tick ==
  /\ now < MaxNow
  /\ now' = now + 1
  /\ UNCHANGED <<localIP, keepaliveInterval, sessVars, connVars, running, tcpMu, wire, pc, lconn, ret, rerr, parsedAck,
                 cbVars, fwdVars>>

Next ==
  \/ Start
  \/ StartKeepalive
  \/ AuthBegin("K")
  \/ AuthDial("K")
  \/ AuthWriteInit("K")
  \/ AuthReadChallenge("K")
  \/ AuthWriteResponse("K")
  \/ AuthReadAck("K")
  \/ AuthReturn("K")
  \/ SendRefreshLock("K")
  \/ SendRefreshReconnect("K")
  \/ SendRefreshWrite("K")
  \/ SendRefreshRead("K")
  \/ KeepaliveClassify
  \/ KeepaliveNetworkError
  \/ APIKeyLock
  \/ APIKeyReconnect
  \/ APIKeyWrite
  \/ APIKeyReadReply
  \/ APIKeyReadError
  \/ ForceReconnect
  \/ \E c \in ConnIds : NetworkCut(c)
  \/ \E ip \in IPs : IPChange(ip)
  \/ Tick

Spec == Init /\ [][Next]_vars

\* =============================================================== forwarder
\* length of the hex string of a token: the router's AUTH_ACK carries a
\* length-prefixed string, token 1 stands for a 64-character one and the
\* others for shorter ones
TokenLen(tok) == IF tok = NoToken THEN 0 ELSE IF tok = 1 THEN HexTokenLen ELSE HexTokenLen \div 2

\* GetSessionInfo() of the client f.authClient points to; the client New
\* made for itself is never started and has no session
ClientToken(a) == IF a = "main" THEN sessionToken ELSE NoToken
ClientExpiresAt(a) == IF a = "main" THEN expiresAt ELSE 0

\* the goroutines run until logger.Fatal ends the process
Alive == mainPc # "exit"

\* ------------------------------------------------------- forwarder.New
\* New(cfg, nil, listenerNode): with cfg.Auth.Enabled it makes a client of
\* its own; OutSystemID of the sender comes from the web bridge; ipOk is
\* the outcome of getLocalIP()

\* OutSystemID of the sender node: the id the web bridge holds, 1 when it
\* holds none
OutSystemID_Raw(d) == d
OutSystemID(d) == IF d = 0 THEN DefaultSysID ELSE d

New(ipOk) ==
  /\ mainPc = "discovered"
  /\ mainPc' = "created"
  /\ authClient' = IF authEnabled THEN "own" ELSE "nil"
  /\ senderOpen' = TRUE
  /\ senderSysID' = OutSystemID(pixhawkSysID)
  /\ previousIP' = IF ipOk THEN localIP ELSE ""
  /\ isHealthy' = TRUE
  /\ UNCHANGED <<ctlVars, authEnabled, startClient, waited, monitoring, loops, hbVars,
                 rebuilt, webVars, rxVars, bootVars, monPc, auxVars>>

\* ----------------------------------------------------- Forwarder.Start
\* whether Start() waits for the first heartbeat
StartGate_Never(a) == FALSE
StartGate(a) == a # "nil"

\* the end of Start(): go receiveAndForward(); go receiveFromServer(), whose
\* first statement takes the event channel of the sender node of that
\* moment; go sendMavlinkSessionHeartbeat()
StartLoops ==
  /\ mainPc' = "fstarted"
  /\ loops' = TRUE
  /\ srvEvents' = "current"
  /\ hbPc' = "spawned"

\* Start() up to the wait: go monitorIPChange(); without an auth client the
\* loops start at once
FwdStart ==
  /\ mainPc = "created"
  /\ monitoring' = TRUE
  /\ startClient' = authClient
  /\ IF StartGate(authClient)
       THEN /\ mainPc' = "waiting"
            /\ UNCHANGED <<loops, hbPc, srvEvents>>
       ELSE StartLoops
  /\ UNCHANGED <<ctlVars, authEnabled, authClient, waited, hbMsg, firstSent, sequence,
                 hbCount, udpHeartbeatSent, senderVars, webVars, rxVars, bootVars, monPc,
                 stopCh, srvOut, oldOpen, wroteOn, parse, lockVars, startCalls>>

\* select { case <-f.udpHeartbeatSent: case <-time.After(5 s): }
FwdStartWait ==
  /\ mainPc = "waiting"
  /\ \/ /\ udpHeartbeatSent > 0
        /\ udpHeartbeatSent' = udpHeartbeatSent - 1
        /\ waited' = "heartbeat"
     \/ /\ waited' = "grace"
        /\ UNCHANGED udpHeartbeatSent
  /\ StartLoops
  /\ UNCHANGED <<ctlVars, authEnabled, authClient, startClient, monitoring, hbMsg,
                 firstSent, sequence, hbCount, senderVars, webVars, rxVars, bootVars, monPc,
                 stopCh, srvOut, oldOpen, wroteOn, parse, lockVars, startCalls>>

\* ------------------------------------------------ main: authClient.Start
\* Client.Start() as main sees it: the handshake of authenticate() either
\* stores the session the AUTH_ACK carries and starts the keepalive loop,
\* or fails, and main exits
ClientStart(ok) ==
  /\ mainPc = "fstarted"
  /\ pc["K"] = "start"
  /\ IF ok
       THEN /\ \E tok \in Tokens : AuthAckStore(Success(tok, MaxExp, DefaultRefreshInterval))
            /\ FreeConns(open) # {}
            /\ conn' = NewConn(open)
            /\ open' = open \cup {NewConn(open)}
            /\ previousLocalIP' = localIP
            /\ lastIPChangeTime' = now
            /\ lconn' = [lconn EXCEPT !["K"] = NoConn]
            /\ running' = TRUE
            /\ pc' = [pc EXCEPT !["K"] = "idle"]
            /\ mainPc' = "authed"
       ELSE /\ pc' = [pc EXCEPT !["K"] = "exit"]
            /\ mainPc' = "exit"
            /\ UNCHANGED <<sessVars, conn, open, previousLocalIP,
                           lastIPChangeTime, lconn, running>>
  /\ UNCHANGED <<envVars, broken, tcpMu, wire, ret, rerr, parsedAck, cbVars, authEnabled,
                 authClient, startClient, waited, monitoring, loops, hbVars, senderVars,
                 webVars, rxVars, bootVars, monPc, auxVars>>

\* ------------------------------------------- Forwarder.SetAuthClient
\* main: fwd.SetAuthClient(authClient)
SetAuthClient ==
  /\ mainPc = "authed"
  /\ mainPc' = "run"
  /\ authClient' = "main"
  /\ UNCHANGED <<ctlVars, authEnabled, startClient, waited, monitoring, loops, hbVars,
                 senderVars, webVars, rxVars, bootVars, monPc, auxVars>>

\* -------------------------- Forwarder.sendMavlinkSessionHeartbeat
\* the goroutine's first statement: without an auth client it returns
HBBegin ==
  /\ Alive
  /\ hbPc = "spawned"
  /\ hbPc' = IF authClient = "nil" THEN "done" ELSE "tick"
  /\ UNCHANGED <<ctlVars, startVars, hbMsg, firstSent, sequence, hbCount,
                 udpHeartbeatSent, senderVars, webVars, rxVars, bootVars, monPc, auxVars>>

\* a tick goes on to build a message only with a token of 64 hex characters
SessionReady_Any(tok) == TRUE
SessionReady(tok) == tok # NoToken /\ TokenLen(tok) >= HexTokenLen

\* sequence++ on a uint16; the variant leaves the counter as it is
NextSequence_Stuck(s) == s
NextSequence(s) == (s + 1) % 65536

\* the heartbeats looked at: the first MaxHB of the process and the MaxHB
\* before the counter wraps
SequenceInWindow(s) == s < MaxHB \/ s >= 65536 - MaxHB

\* case <-ticker.C: GetSessionInfo(), the checks, the message, sequence++
HBTick ==
  /\ Alive
  /\ hbPc = "tick"
  /\ SequenceInWindow(sequence)
  /\ IF SessionReady(ClientToken(authClient))
       THEN /\ hbMsg' = [tok |-> ClientToken(authClient),
                         exp |-> ClientExpiresAt(authClient),
                         seq |-> sequence]
            /\ sequence' = NextSequence(sequence)
            /\ hbPc' = "write"
       ELSE UNCHANGED <<hbMsg, sequence, hbPc>>
  /\ UNCHANGED <<ctlVars, startVars, firstSent, hbCount, udpHeartbeatSent, senderVars,
                 webVars, rxVars, bootVars, monPc, auxVars>>

\* the heartbeat loop and receiveAndForward read the field f.senderNode
\* at each write, without a lock, and checkIP() stores to it without one:
\* from the store until checkIP() has released f.mu the read is not ordered
\* after the store and returns the new node ("current") or the one the
\* field named before ("old")
SenderRead == IF monPc \in {"force", "healthy"} THEN {"current", "old"} ELSE {"current"}
NodeOpen(node) == IF node = "current" THEN senderOpen ELSE oldOpen
Wrote(node) ==
  IF node = "current" THEN "current" ELSE IF oldOpen THEN "old_open" ELSE "old_closed"

\* f.senderNode.WriteMessageAll(msg); the first success signals
\* udpHeartbeatSent without blocking
HBWrite ==
  /\ Alive
  /\ hbPc = "write"
  /\ hbPc' = "tick"
  /\ hbMsg' = NoMsg
  /\ \E node \in SenderRead :
       /\ wroteOn' = [wroteOn EXCEPT !.hb = Wrote(node)]
       /\ IF NodeOpen(node)
            THEN /\ hbCount' = hbCount + 1
                 /\ firstSent' = TRUE
                 /\ udpHeartbeatSent' = IF ~firstSent /\ udpHeartbeatSent = 0
                                          THEN 1 ELSE udpHeartbeatSent
            ELSE UNCHANGED <<hbCount, firstSent, udpHeartbeatSent>>
  /\ UNCHANGED <<ctlVars, startVars, sequence, senderVars, webVars, rxVars, bootVars, monPc,
                 stopCh, srvEvents, srvOut, oldOpen, parse, lockVars, startCalls>>

\* ------------------------------------------ Forwarder.receiveAndForward
\* the frame comes from a ground station
IsGCS_None(s) == FALSE
IsGCS(s) == s = GCSSystemID

\* lastSeq, exists := f.lastSeqNum[sysID]; exists && lastSeq == seqNum
IsDuplicate_ZeroValue(m, s, q) == (IF m[s] = NoSeq THEN 0 ELSE m[s]) = q
IsDuplicate(m, s, q) == m[s] # NoSeq /\ m[s] = q

\* web.HandleHeartbeat: the first system id reported is kept
HandleHeartbeat(s) ==
  /\ pixhawkSysID' = IF webConnected THEN pixhawkSysID ELSE s
  /\ webConnected' = TRUE

\* the forwarding branch of receiveAndForward: an unhealthy forwarder
\* drops the frame; otherwise WriteFrameAll on the sender, which fails on a
\* closed node
ForwardOutcome_AlwaysSent(healthy, isOpen) == IF ~healthy THEN "unhealthy" ELSE "sent"
ForwardOutcome(healthy, isOpen) ==
  IF ~healthy THEN "unhealthy" ELSE IF isOpen THEN "sent" ELSE "send_failed"

\* the metrics counter named c goes up by one for the outcome c:
\* IncFailedUnhealthy and IncFailedSend add one to FailedPackets as well;
\* the variant counts nothing
Count_Never(outcome, c) == 0
Count(outcome, c) == IF outcome = c THEN 1 ELSE 0

\* one EventFrame of the listener: the ground-station filter, the
\* deduplication, the heartbeat hook and the forwarding with its counter
ReceiveFrame(fr) ==
  /\ Alive
  /\ loops
  /\ nRecv < MaxFrames
  /\ nRecv' = nRecv + 1
  /\ rx' = [sys |-> fr.sys, seq |-> fr.seq]
  /\ IF IsGCS(fr.sys)
       THEN /\ rxOut' = "skip_gcs"
            /\ UNCHANGED <<lastSeqNum, sent, failedUnhealthy, failedSend, failedPackets,
                           forwardedCount, webVars, wroteOn>>
       ELSE IF IsDuplicate(lastSeqNum, fr.sys, fr.seq)
         THEN /\ rxOut' = "dup"
              /\ UNCHANGED <<lastSeqNum, sent, failedUnhealthy, failedSend, failedPackets,
                           forwardedCount, webVars, wroteOn>>
         ELSE /\ lastSeqNum' = [lastSeqNum EXCEPT ![fr.sys] = fr.seq]
              /\ forwardedCount' = forwardedCount + 1
              /\ IF fr.msg = "HEARTBEAT"
                   THEN HandleHeartbeat(fr.sys)
                   ELSE UNCHANGED webVars
              /\ \E node \in SenderRead :
                   /\ rxOut' = ForwardOutcome(isHealthy, NodeOpen(node))
                   /\ wroteOn' = IF isHealthy THEN [wroteOn EXCEPT !.rx = Wrote(node)]
                                              ELSE wroteOn
              /\ failedUnhealthy' = failedUnhealthy + Count(rxOut', "unhealthy")
              /\ sent' = sent + Count(rxOut', "sent")
              /\ failedSend' = failedSend + Count(rxOut', "send_failed")
              /\ failedPackets' = failedPackets + Count(rxOut', "unhealthy")
                                                 + Count(rxOut', "send_failed")
  /\ UNCHANGED <<ctlVars, startVars, hbVars, senderVars, bootVars, monPc, stopCh, srvEvents,
                 srvOut, oldOpen, parse, lockVars, startCalls>>

\* -------------------------------------------- Forwarder.monitorIPChange
\* f.senderNode.Close() leaves the node closed; the variant leaves it as
\* it was
CloseSender_Skipped(isOpen) == isOpen
CloseSender(isOpen) == FALSE

\* f.senderNode = node: an event channel taken from the node it named
\* before is no longer that of the sender
Replaced(ev) == IF ev = "current" THEN "stale" ELSE ev

\* checkIP() on a tick: the first IP is recorded; a changed IP closes the
\* sender, makes a new one (nodeOk: gomavlib.NewNode succeeds), forces the
\* auth client to drop its connection and marks the forwarder healthy
CheckIP(nodeOk) ==
  /\ Alive
  /\ monitoring
  /\ IF previousIP = ""
       THEN /\ previousIP' = localIP
            /\ isHealthy' = TRUE
            /\ UNCHANGED <<ctlVars, senderOpen, senderSysID, rebuilt, srvEvents, oldOpen>>
       ELSE /\ previousIP # localIP
            /\ previousIP' = localIP
            /\ IF nodeOk
                 THEN /\ senderOpen' = TRUE
                      /\ senderSysID' = DefaultSysID
                      /\ rebuilt' = TRUE
                      /\ srvEvents' = Replaced(srvEvents)
                      /\ oldOpen' = CloseSender(senderOpen)
                      /\ isHealthy' = TRUE
                      /\ IF authClient = "main" /\ conn # NoConn
                           THEN /\ conn' = NoConn
                                /\ open' = open \ {conn}
                                /\ broken' = broken \ {conn}
                                /\ wire' = ClosedWire(wire, conn)
                                /\ UNCHANGED <<envVars, sessVars,
                                               previousLocalIP, lastIPChangeTime, running,
                                               tcpMu, pc, lconn, ret, rerr, parsedAck, cbVars>>
                           ELSE UNCHANGED ctlVars
                 ELSE /\ senderOpen' = CloseSender(senderOpen)
                      /\ UNCHANGED <<ctlVars, senderSysID, rebuilt, isHealthy, srvEvents,
                                     oldOpen>>
  /\ UNCHANGED <<startVars, hbVars, webVars, rxVars, bootVars, monPc, stopCh, srvOut,
                 wroteOn, parse, lockVars, startCalls>>

\* ------------------------------------------------------------- FwdSpec
\* main's discovery step saw a flight controller whose system id is not
\* the default one; cfg.Auth.Enabled is either
FwdInit ==
  /\ ClientInit
  /\ \E enabled \in BOOLEAN : ForwarderInit(enabled, DefaultSysID + 1)
  /\ parse = NoParse /\ LocksInit /\ NoStart

FwdNext ==
  \/ \E ipOk \in BOOLEAN : New(ipOk)
  \/ FwdStart
  \/ FwdStartWait
  \/ \E ok \in BOOLEAN : ClientStart(ok)
  \/ SetAuthClient
  \/ HBBegin
  \/ HBTick
  \/ HBWrite
  \/ \E fr \in Frames : ReceiveFrame(fr)
  \/ \E nodeOk \in BOOLEAN : CheckIP(nodeOk)
  \/ \E ip \in IPs : IPChange(ip)

FwdSpec == FwdInit /\ [][FwdNext]_vars

\* ================================================================ main()
\* The start-up sequence of main: registration when -register is given,
\* the listener, the discovery wait, forwarder.New, Forwarder.Start and
\* Client.Start, each step on main's own task.

\* the success path of Register(): the connection it dialled (c) is closed
\* and the client is left with no connection and no session
RegisterDone_KeepConn(c) ==
  /\ conn' = c
  /\ open' = open \cup {c}
  /\ regConn' = c
  /\ sessionToken' = NoToken
  /\ expiresAt' = 0
RegisterDone(c) ==
  /\ conn' = NoConn
  /\ open' = open \ {c}
  /\ regConn' = NoConn
  /\ sessionToken' = NoToken
  /\ expiresAt' = 0

\* main with -register: Register() dials a connection of its own; res is
\* how the exchange ends: "no_conn" (no shared secret or the dial failed),
\* "failed" (an error after the dial: the function returns without closing
\* and main exits) or "ok"
MainRegister(res) ==
  /\ mainPc = "boot"
  /\ registerFlag
  /\ regState' = res
  /\ IF res = "ok"
       THEN /\ FreeConns(open) # {}
            /\ RegisterDone(NewConn(open))
            /\ mainPc' = "listen"
       ELSE /\ mainPc' = "exit"
            /\ IF res = "failed"
                 THEN /\ FreeConns(open) # {}
                      /\ regConn' = NewConn(open)
                      /\ open' = open \cup {NewConn(open)}
                 ELSE UNCHANGED <<regConn, open>>
            /\ UNCHANGED <<conn, sessionToken, expiresAt>>
  /\ UNCHANGED <<envVars, refreshInterval, running, tcpMu, previousLocalIP,
                 lastIPChangeTime, broken, wire, pc, lconn, ret, rerr, parsedAck, cbVars,
                 authEnabled, authClient, startClient, waited, monitoring, loops, hbVars,
                 senderVars, webVars, rxVars, registerFlag, allowMissing, discovery, monPc, auxVars>>

\* main without -register goes straight to the listener
MainNoRegister ==
  /\ mainPc = "boot"
  /\ ~registerFlag
  /\ mainPc' = "listen"
  /\ UNCHANGED <<ctlVars, authEnabled, authClient, startClient, waited, monitoring, loops,
                 hbVars, senderVars, webVars, rxVars, bootVars, monPc, auxVars>>

\* forwarder.NewListener and web.InitMAVLinkBridge; a listener that cannot
\* be made ends the program
MainListen(ok) ==
  /\ mainPc = "listen"
  /\ mainPc' = IF ok THEN "discovery" ELSE "exit"
  /\ UNCHANGED <<ctlVars, authEnabled, authClient, startClient, waited, monitoring, loops,
                 hbVars, senderVars, webVars, rxVars, bootVars, monPc, auxVars>>

\* the discovery wait ends with the first frame of the listener, whatever
\* its message and system id: the id goes to web.HandleHeartbeat
DiscoveryFrame(fr) ==
  /\ mainPc = "discovery"
  /\ discovery' = "connected"
  /\ HandleHeartbeat(fr.sys)
  /\ mainPc' = "discovered"
  /\ UNCHANGED <<ctlVars, authEnabled, authClient, startClient, waited, monitoring, loops,
                 hbVars, senderVars, rxVars, registerFlag, allowMissing, regState, regConn,
                 monPc, auxVars>>

\* the discovery wait ends with the timer: main goes on when
\* cfg.Ethernet.AllowMissingPixhawk is set and exits otherwise
DiscoveryTimeout ==
  /\ mainPc = "discovery"
  /\ discovery' = "timeout"
  /\ mainPc' = IF allowMissing THEN "discovered" ELSE "exit"
  /\ UNCHANGED <<ctlVars, authEnabled, authClient, startClient, waited, monitoring, loops,
                 hbVars, senderVars, webVars, rxVars, registerFlag, allowMissing, regState,
                 regConn, monPc, auxVars>>

\* authClient.Start() is called once fwd.Start() has returned
MainClientStart ==
  /\ mainPc = "fstarted"
  /\ Start

\* authClient.Start() returned to main: nil lets main go on to
\* fwd.SetAuthClient, an error ends the program
MainClientStarted ==
  /\ mainPc = "fstarted"
  /\ \/ pc["K"] = "idle" /\ running /\ mainPc' = "authed"
     \/ pc["K"] = "exit" /\ mainPc' = "exit"
  /\ UNCHANGED <<ctlVars, authEnabled, authClient, startClient, waited, monitoring, loops,
                 hbVars, senderVars, webVars, rxVars, bootVars, monPc, auxVars>>

\* the program as main launches it: the flags and the configuration are
\* free, nothing has run yet
BootInit ==
  /\ ClientInit
  /\ authEnabled \in BOOLEAN
  /\ registerFlag \in BOOLEAN
  /\ allowMissing \in BOOLEAN
  /\ mainPc = "boot"
  /\ regState = "none"
  /\ regConn = NoConn
  /\ discovery = "pending"
  /\ pixhawkSysID = 0
  /\ webConnected = FALSE
  /\ authClient = "nil"
  /\ startClient = "nil"
  /\ waited = "none"
  /\ monitoring = FALSE
  /\ loops = FALSE
  /\ hbPc = "off"
  /\ hbMsg = NoMsg
  /\ firstSent = FALSE
  /\ sequence = 0
  /\ hbCount = 0
  /\ udpHeartbeatSent = 0
  /\ isHealthy = FALSE
  /\ previousIP = ""
  /\ senderOpen = FALSE
  /\ senderSysID = 0
  /\ rebuilt = FALSE
  /\ lastSeqNum = [i \in SysIDs |-> NoSeq]
  /\ sent = 0
  /\ failedUnhealthy = 0
  /\ failedSend = 0
  /\ failedPackets = 0
  /\ forwardedCount = 0
  /\ nRecv = 0
  /\ rx = NoFrame
  /\ rxOut = "none"
  /\ monPc = "idle"
  /\ NodeInit
  /\ parse = NoParse /\ LocksInit /\ NoStart

BootNext ==
  \/ \E res \in {"ok", "no_conn", "failed"} : MainRegister(res)
  \/ MainNoRegister
  \/ \E ok \in BOOLEAN : MainListen(ok)
  \/ \E fr \in Frames : DiscoveryFrame(fr)
  \/ DiscoveryTimeout
  \/ \E ipOk \in BOOLEAN : New(ipOk)
  \/ FwdStart
  \/ FwdStartWait
  \/ MainClientStart
  \/ AuthBegin("K")
  \/ AuthDial("K")
  \/ AuthWriteInit("K")
  \/ AuthReadChallenge("K")
  \/ AuthWriteResponse("K")
  \/ AuthReadAck("K")
  \/ AuthReturn("K")
  \/ StartKeepalive
  \/ MainClientStarted
  \/ SetAuthClient
  \/ \E c \in ConnIds : NetworkCut(c)
  \/ \E ip \in IPs : IPChange(ip)
  \/ Tick

BootSpec == BootInit /\ [][BootNext]_vars

\* ===================================================== monitorIPChange
\* checkIP() of the IP monitor, statement by statement, next to the
\* keepalive loop of the client: monPc is the monitor's position

\* getLocalIP() and the comparison: the first IP seen is recorded and the
\* forwarder marked healthy; a changed IP is recorded (f.previousIP =
\* currentIP) and the rebuild begins
MonDetect ==
  /\ Alive
  /\ monitoring
  /\ monPc = "idle"
  /\ IF previousIP = ""
       THEN /\ previousIP' = localIP
            /\ isHealthy' = TRUE
            /\ UNCHANGED monPc
       ELSE /\ previousIP # localIP
            /\ previousIP' = localIP
            /\ monPc' = "close"
            /\ UNCHANGED isHealthy
  /\ UNCHANGED <<ctlVars, startVars, hbVars, senderOpen, senderSysID, rebuilt, webVars,
                 rxVars, bootVars, auxVars>>

\* f.senderNode.Close()
MonClose ==
  /\ monPc = "close"
  /\ senderOpen' = CloseSender(senderOpen)
  /\ monPc' = "rebuild"
  /\ UNCHANGED <<ctlVars, startVars, hbVars, isHealthy, previousIP, senderSysID, rebuilt,
                 webVars, rxVars, bootVars, auxVars>>

\* gomavlib.NewNode with OutSystemID 1 and f.senderNode = newSenderNode;
\* when the node cannot be made checkIP() returns
MonRebuild(nodeOk) ==
  /\ monPc = "rebuild"
  /\ IF nodeOk
       THEN /\ senderOpen' = TRUE
            /\ senderSysID' = DefaultSysID
            /\ rebuilt' = TRUE
            /\ srvEvents' = Replaced(srvEvents)
            /\ oldOpen' = senderOpen
            /\ monPc' = "force"
       ELSE /\ monPc' = "idle"
            /\ UNCHANGED <<senderOpen, senderSysID, rebuilt, srvEvents, oldOpen>>
  /\ UNCHANGED <<ctlVars, startVars, hbVars, isHealthy, previousIP, webVars, rxVars,
                 bootVars, stopCh, srvOut, wroteOn, parse, lockVars, startCalls>>

\* f.authClient.ForceReconnect() when the forwarder has a client: main's
\* client once SetAuthClient has run, before that the client New() made,
\* which was never started and holds no connection
MonForceReconnect ==
  /\ monPc = "force"
  /\ monPc' = "healthy"
  /\ IF authClient = "main"
       THEN /\ tcpMu = "free"
            /\ ipHandled' = TRUE
            /\ IF conn # NoConn
                 THEN DropConn
                 ELSE UNCHANGED <<sessVars, connVars, wire>>
            /\ UNCHANGED <<envVars, running, tcpMu, pc, lconn, ret, rerr, parsedAck,
                           networkErrors, tickerPeriod, recConn>>
       ELSE UNCHANGED ctlVars
  /\ UNCHANGED <<startVars, hbVars, senderVars, webVars, rxVars, bootVars, auxVars>>

\* f.isHealthy = true
MonHealthy ==
  /\ monPc = "healthy"
  /\ isHealthy' = TRUE
  /\ monPc' = "idle"
  /\ UNCHANGED <<ctlVars, startVars, hbVars, previousIP, senderOpen, senderSysID, rebuilt,
                 webVars, rxVars, bootVars, auxVars>>

\* the forwarder and the client from forwarder.New on, with the monitor
\* and the keepalive loop running side by side; connections end here only
\* by the program's own Close calls
IPNext ==
  \/ \E ipOk \in BOOLEAN : New(ipOk)
  \/ FwdStart
  \/ FwdStartWait
  \/ \E ok \in BOOLEAN : ClientStart(ok)
  \/ SetAuthClient
  \/ SendRefreshLock("K")
  \/ SendRefreshReconnect("K")
  \/ SendRefreshWrite("K")
  \/ SendRefreshRead("K")
  \/ KeepaliveClassify
  \/ KeepaliveNetworkError
  \/ AuthBegin("K")
  \/ AuthDial("K")
  \/ AuthWriteInit("K")
  \/ AuthReadChallenge("K")
  \/ AuthWriteResponse("K")
  \/ AuthReadAck("K")
  \/ AuthReturn("K")
  \/ MonDetect
  \/ MonClose
  \/ \E nodeOk \in BOOLEAN : MonRebuild(nodeOk)
  \/ MonForceReconnect
  \/ MonHealthy
  \/ \E ip \in IPs : IPChange(ip)
  \/ Tick

IPSpec == FwdInit /\ [][IPNext]_vars

\* ================================================== Client.TriggerReauth
\* TriggerReauth() is authenticate() on the caller's task (W): no lock is
\* taken before the call.  TriggerSessionRecovery() ends in the same call
\* on each of its fallback paths.
TriggerReauth ==
  /\ running
  /\ pc["W"] = "idle"
  /\ pc' = [pc EXCEPT !["W"] = "auth_begin"]
  /\ UNCHANGED <<envVars, sessVars, connVars, running, tcpMu, wire, lconn, ret, rerr,
                 parsedAck, cbVars, fwdVars>>

\* authenticate() returned to the caller of TriggerReauth()
TriggerReauthReturn ==
  /\ pc["W"] \in {"auth_ok", "auth_err"}
  /\ pc' = [pc EXCEPT !["W"] = "idle"]
  /\ lconn' = [lconn EXCEPT !["W"] = NoConn]
  /\ UNCHANGED <<envVars, sessVars, connVars, running, tcpMu, wire, ret, rerr, parsedAck,
                 cbVars, fwdVars>>

\* the client with its keepalive loop and a second task that asks for a
\* re-authentication
RecNext ==
  \/ Start
  \/ StartKeepalive
  \/ AuthBegin("K")
  \/ AuthDial("K")
  \/ AuthWriteInit("K")
  \/ AuthReadChallenge("K")
  \/ AuthWriteResponse("K")
  \/ AuthReadAck("K")
  \/ AuthReturn("K")
  \/ SendRefreshLock("K")
  \/ SendRefreshReconnect("K")
  \/ SendRefreshWrite("K")
  \/ SendRefreshRead("K")
  \/ KeepaliveClassify
  \/ KeepaliveNetworkError
  \/ TriggerReauth
  \/ AuthBegin("W")
  \/ AuthDial("W")
  \/ AuthWriteInit("W")
  \/ AuthReadChallenge("W")
  \/ AuthWriteResponse("W")
  \/ AuthReadAck("W")
  \/ TriggerReauthReturn
  \/ \E c \in ConnIds : NetworkCut(c)
  \/ Tick

RecSpec == Init /\ [][RecNext]_vars

\* ================================================= Client.keepaliveLoop
\* the first statements of the keepalive goroutine: the refresh interval
\* held at that moment (30 s when it is 0) becomes the ticker's period;
\* the ticker is never reset
KeepaliveLoopBegin ==
  /\ running
  /\ tickerPeriod = 0
  /\ tickerPeriod' = IF refreshInterval = 0 THEN DefaultRefreshInterval ELSE refreshInterval
  /\ UNCHANGED <<envVars, sessVars, connVars, running, tcpMu, wire, pc, lconn, ret, rerr,
                 parsedAck, networkErrors, ipHandled, recConn, fwdVars>>

\* case <-refreshTicker.C: the tick calls sendRefresh()
KeepaliveTick ==
  /\ tickerPeriod # 0
  /\ SendRefreshLock("K")

\* the client alone: Start(), the keepalive loop with its ticker, and the
\* network
KaNext ==
  \/ Start
  \/ AuthBegin("K")
  \/ AuthDial("K")
  \/ AuthWriteInit("K")
  \/ AuthReadChallenge("K")
  \/ AuthWriteResponse("K")
  \/ AuthReadAck("K")
  \/ AuthReturn("K")
  \/ StartKeepalive
  \/ KeepaliveLoopBegin
  \/ KeepaliveTick
  \/ SendRefreshReconnect("K")
  \/ SendRefreshWrite("K")
  \/ SendRefreshRead("K")
  \/ KeepaliveClassify
  \/ KeepaliveNetworkError
  \/ \E c \in ConnIds : NetworkCut(c)
  \/ Tick

KaSpec == Init /\ [][KaNext]_vars

\* ------------------------------------------------ ParseSessionRefreshAck
\* the bytes a read can return as the reply to SESSION_REFRESH: the type
\* byte, a result and what follows, cut anywhere
AckBytes ==
  UNION {[1..n -> {ResultSuccess, ResultFailure, MsgSessionRefreshAck}] : n \in 0..MaxAckLen}

\* ParseSessionRefreshAck returns an error: no type byte, another type
\* byte, no result byte, or a success cut before the end of expires_at (8
\* bytes) and interval (2 bytes)
ParseSessionRefreshAckFails(data) ==
  IF Len(data) < 1 THEN TRUE
  ELSE IF data[1] # MsgSessionRefreshAck THEN TRUE
  ELSE IF Len(data) < 2 THEN TRUE
  ELSE data[2] = ResultSuccess /\ Len(data) < 2 + 8 + 2

\* conn.Read returns bytes ParseSessionRefreshAck cannot parse: sendRefresh
\* returns a RefreshError without an error code
SendRefreshReadMalformed(t) ==
  /\ pc[t] = "ref_read"
  /\ ConnRead(lconn[t])
  /\ Reply(lconn[t]).op = "SESSION_REFRESH"
  /\ \E data \in AckBytes :
       /\ ParseSessionRefreshAckFails(data)
       /\ RefreshReturn(t, RefreshError(0, "parse"))
  /\ UNCHANGED <<envVars, sessVars, connVars, running, ret, parsedAck, cbVars, fwdVars>>

\* the client alone with a router whose SESSION_REFRESH_ACK can arrive
\* truncated or with another type byte
CodecNext ==
  \/ KaNext
  \/ SendRefreshReadMalformed("K")

CodecSpec == Init /\ [][CodecNext]_vars

\* --------------------------------------- the keepalive interval of NewClient
\* values of auth.keepalive_interval, which the configuration requires to
\* be positive
KeepaliveIntervals == {10, DefaultRefreshInterval}

\* conn.Read + ParseAuthAck of a successful AUTH_ACK in which the router
\* recommends no interval (interval 0)
AuthReadAckNoInterval(t) ==
  /\ pc[t] = "auth_r2"
  /\ ConnRead(lconn[t])
  /\ Reply(lconn[t]).op = "AUTH_RESPONSE"
  /\ \E tok \in Tokens, exp \in ExpVals :
       /\ parsedAck' = Success(tok, exp, 0)
       /\ AuthAckStore(Success(tok, exp, 0))
       /\ pc' = [pc EXCEPT ![t] = "auth_ok"]
  /\ UNCHANGED <<envVars, connVars, running, tcpMu, lconn, ret, rerr, cbVars, fwdVars>>

\* the client of any configuration, alone, with a router that may leave
\* the interval of its AUTH_ACK at 0
IvlInit ==
  /\ \E k \in KeepaliveIntervals : NewClient(k)
  /\ ForwarderInit(TRUE, 0)
  /\ parse = NoParse /\ LocksInit /\ NoStart

IvlNext ==
  \/ KaNext
  \/ AuthReadAckNoInterval("K")

IvlSpec == IvlInit /\ [][IvlNext]_vars

\* ========================================= Client.TriggerSessionRecovery
\* TriggerSessionRecovery() on the caller's task (W).  ret["W"] is the
\* call the function is at: "refresh" (sendRefresh), "new_fallback"
\* (requestSession after a failed refresh), "new_direct" (requestSession
\* without a valid token) or "reauth" (TriggerReauth).

\* the entry: token, expiresAt, running and conn are read once; a valid
\* token goes to sendRefresh(), otherwise a connection that is not nil
\* goes to requestSession(conn), and no connection to TriggerReauth()
RecoveryBegin ==
  /\ running
  /\ pc["W"] = "idle"
  /\ ret["W"] = "none"
  /\ recConn' = conn
  /\ IF sessionToken # NoToken /\ now < expiresAt
       THEN /\ ret' = [ret EXCEPT !["W"] = "refresh"]
            /\ UNCHANGED pc
       ELSE IF conn # NoConn
         THEN /\ ret' = [ret EXCEPT !["W"] = "new_direct"]
              /\ pc' = [pc EXCEPT !["W"] = "new_write"]
         ELSE /\ ret' = [ret EXCEPT !["W"] = "reauth"]
              /\ pc' = [pc EXCEPT !["W"] = "auth_begin"]
  /\ UNCHANGED <<envVars, sessVars, connVars, running, tcpMu, wire, lconn, rerr, parsedAck,
                 networkErrors, ipHandled, tickerPeriod, fwdVars>>

\* c.sendRefresh() called by TriggerSessionRecovery()
RecoveryRefresh ==
  /\ ret["W"] = "refresh"
  /\ SendRefreshLock("W")

\* sendRefresh() returned: nil ends the recovery; an error goes to
\* requestSession(conn) when the conn read at the entry was not nil, and
\* to TriggerReauth() otherwise
RecoveryAfterRefresh ==
  /\ ret["W"] = "refresh"
  /\ pc["W"] = "ref_done"
  /\ rerr' = NoErr
  /\ parsedAck' = NoRep
  /\ IF ~rerr.isErr
       THEN /\ ret' = [ret EXCEPT !["W"] = "none"]
            /\ pc' = [pc EXCEPT !["W"] = "idle"]
            /\ recConn' = NoConn
       ELSE IF recConn # NoConn
         THEN /\ ret' = [ret EXCEPT !["W"] = "new_fallback"]
              /\ pc' = [pc EXCEPT !["W"] = "new_write"]
              /\ UNCHANGED recConn
         ELSE /\ ret' = [ret EXCEPT !["W"] = "reauth"]
              /\ pc' = [pc EXCEPT !["W"] = "auth_begin"]
              /\ UNCHANGED recConn
  /\ UNCHANGED <<envVars, sessVars, connVars, running, tcpMu, wire, lconn,
                 networkErrors, ipHandled, tickerPeriod, fwdVars>>

\* requestSession(conn) failed: return c.TriggerReauth()
RequestSessionFail ==
  /\ pc' = [pc EXCEPT !["W"] = "auth_begin"]
  /\ ret' = [ret EXCEPT !["W"] = "reauth"]

\* requestSession: conn.Write(SESSION_NEW) on the connection passed in;
\* tcpMu is not taken
RequestSessionWrite ==
  /\ pc["W"] = "new_write"
  /\ \/ /\ ConnWrite("W", recConn, "SESSION_NEW")
        /\ pc' = [pc EXCEPT !["W"] = "new_read"]
        /\ UNCHANGED ret
     \/ /\ ~Usable(recConn)
        /\ RequestSessionFail
        /\ UNCHANGED wire
  /\ UNCHANGED <<envVars, sessVars, connVars, running, tcpMu, lconn, rerr, parsedAck,
                 cbVars, fwdVars>>

\* what a successful SESSION_ACK stores
SessionAckStore(ack) ==
  /\ sessionToken' = ack.tok
  /\ expiresAt' = ack.exp
  /\ refreshInterval' = ack.ivl

\* requestSession: conn.Read (10 s deadline) + ParseSessionAck; a success
\* stores the session and ends the recovery
RequestSessionRead ==
  /\ pc["W"] = "new_read"
  /\ \/ /\ ConnRead(recConn)
        /\ IF Reply(recConn).op # "SESSION_NEW"
             THEN /\ RequestSessionFail
                  /\ UNCHANGED <<sessVars, recConn>>
             ELSE \E r \in RepliesFor("SESSION_NEW") :
                    IF r.res = "success"
                      THEN /\ SessionAckStore(r)
                           /\ pc' = [pc EXCEPT !["W"] = "idle"]
                           /\ ret' = [ret EXCEPT !["W"] = "none"]
                           /\ recConn' = NoConn
                      ELSE /\ RequestSessionFail
                           /\ UNCHANGED <<sessVars, recConn>>
     \/ /\ ConnReadFails(recConn)
        /\ RequestSessionFail
        /\ UNCHANGED <<wire, sessVars, recConn>>
  /\ UNCHANGED <<envVars, connVars, running, tcpMu, lconn, rerr, parsedAck,
                 networkErrors, ipHandled, tickerPeriod, fwdVars>>

\* authenticate() returned to TriggerReauth() and with it the recovery
RecoveryReturn ==
  /\ ret["W"] = "reauth"
  /\ pc["W"] \in {"auth_ok", "auth_err"}
  /\ pc' = [pc EXCEPT !["W"] = "idle"]
  /\ ret' = [ret EXCEPT !["W"] = "none"]
  /\ lconn' = [lconn EXCEPT !["W"] = NoConn]
  /\ recConn' = NoConn
  /\ parsedAck' = NoRep
  /\ UNCHANGED <<envVars, sessVars, connVars, running, tcpMu, wire, rerr,
                 networkErrors, ipHandled, tickerPeriod, fwdVars>>

\* the started client, a task that calls TriggerSessionRecovery(), the IP
\* monitor's ForceReconnect() and the network; the refresh ticker does not
\* fire while the recovery runs
RecovNext ==
  \/ Start
  \/ AuthBegin("K")
  \/ AuthDial("K")
  \/ AuthWriteInit("K")
  \/ AuthReadChallenge("K")
  \/ AuthWriteResponse("K")
  \/ AuthReadAck("K")
  \/ AuthReturn("K")
  \/ StartKeepalive
  \/ RecoveryBegin
  \/ RecoveryRefresh
  \/ SendRefreshReconnect("W")
  \/ SendRefreshWrite("W")
  \/ SendRefreshRead("W")
  \/ RecoveryAfterRefresh
  \/ RequestSessionWrite
  \/ RequestSessionRead
  \/ AuthBegin("W")
  \/ AuthDial("W")
  \/ AuthWriteInit("W")
  \/ AuthReadChallenge("W")
  \/ AuthWriteResponse("W")
  \/ AuthReadAck("W")
  \/ RecoveryReturn
  \/ ForceReconnect
  \/ \E c \in ConnIds : NetworkCut(c)
  \/ \E ip \in IPs : IPChange(ip)
  \/ Tick

RecovSpec == Init /\ [][RecovNext]_vars

\* ===================================== forwarder.New with a shared client
\* New(cfg, authClient, listenerNode) called with the caller's client (the
\* branch "using shared authClient"): f.authClient is that client from the
\* start, whether or not it has been started
NewShared(ipOk) ==
  /\ mainPc = "discovered"
  /\ mainPc' = "created"
  /\ authClient' = "main"
  /\ senderOpen' = TRUE
  /\ senderSysID' = OutSystemID(pixhawkSysID)
  /\ previousIP' = IF ipOk THEN localIP ELSE ""
  /\ isHealthy' = TRUE
  /\ UNCHANGED <<ctlVars, authEnabled, startClient, waited, monitoring, loops, hbVars,
                 rebuilt, webVars, rxVars, bootVars, monPc, auxVars>>

\* a caller that starts its client and hands it to forwarder.New, in either
\* order, and then calls Forwarder.Start
SharedNext ==
  \/ Start
  \/ AuthBegin("K")
  \/ AuthDial("K")
  \/ AuthWriteInit("K")
  \/ AuthReadChallenge("K")
  \/ AuthWriteResponse("K")
  \/ AuthReadAck("K")
  \/ AuthReturn("K")
  \/ StartKeepalive
  \/ \E ipOk \in BOOLEAN : NewShared(ipOk)
  \/ FwdStart
  \/ FwdStartWait
  \/ HBBegin
  \/ HBTick
  \/ HBWrite
  \/ \E fr \in Frames : ReceiveFrame(fr)
  \/ Tick

SharedSpec == FwdInit /\ [][SharedNext]_vars

\* ================== sendMavlinkSessionHeartbeat next to the keepalive loop
\* the forwarder from forwarder.New on with the heartbeat goroutine and the
\* client's keepalive loop running side by side: GetSessionInfo() and
\* WriteMessageAll() of one tick are separate steps, and the keepalive's
\* sendRefresh() and authenticate() can store between them
HbNext ==
  \/ \E ipOk \in BOOLEAN : New(ipOk)
  \/ FwdStart
  \/ FwdStartWait
  \/ \E ok \in BOOLEAN : ClientStart(ok)
  \/ SetAuthClient
  \/ HBBegin
  \/ HBTick
  \/ HBWrite
  \/ SendRefreshLock("K")
  \/ SendRefreshReconnect("K")
  \/ SendRefreshWrite("K")
  \/ SendRefreshRead("K")
  \/ KeepaliveClassify
  \/ KeepaliveNetworkError
  \/ AuthBegin("K")
  \/ AuthDial("K")
  \/ AuthWriteInit("K")
  \/ AuthReadChallenge("K")
  \/ AuthWriteResponse("K")
  \/ AuthReadAck("K")
  \/ AuthReturn("K")
  \/ Tick

HbSpec == FwdInit /\ [][HbNext]_vars

\* ================================================== ParseAPIKeyResponse
\* packets are sequences of bytes; data[i] of the Go code is At(data, i)
At(data, i) == data[i + 1]
\* binary.LittleEndian.Uint16(data[o : o+2]) and PutUint16
Uint16(data, o) == At(data, o) + 256 * At(data, o + 1)
PutUint16(n) == <<n % 256, (n \div 256) % 256>>
\* binary.LittleEndian.Uint64(data[o : o+8]); the timestamps of the model
\* are below 2^24, bytes 3..7 are carried as the factor of 2^24
Uint64(data, o) ==
  At(data, o) + 256 * At(data, o + 1) + 65536 * At(data, o + 2)
    + 16777216 * (At(data, o + 3) + At(data, o + 4) + At(data, o + 5) + At(data, o + 6)
                    + At(data, o + 7))
PutUint64(n) == <<n % 256, (n \div 256) % 256, (n \div 65536) % 256, 0, 0, 0, 0, 0>>

\* the canonical API_KEY_RESPONSE: [TYPE:1][RESULT:1][ERROR_CODE:1] and, on
\* success, [KEY_LEN:2][KEY:var][EXPIRES_AT:8]
Canonical(v) ==
  <<MsgAPIKeyResponse, v.result, v.errorCode>>
    \o (IF v.result = ResultSuccess
          THEN PutUint16(Len(v.apiKey)) \o v.apiKey \o PutUint64(v.expiresAt)
          ELSE <<>>)
\* the legacy form: [LENGTH:2] and then the same message
LengthPrefixed(v) == PutUint16(Len(Canonical(v))) \o Canonical(v)

\* parseAPIKeyResponseFromOffset(data, offset)
parseAPIKeyResponseFromOffset(data, offset) ==
  IF At(data, offset) # MsgAPIKeyResponse THEN ParseError
  ELSE IF Len(data) < offset + 2 THEN ParseError
  ELSE IF Len(data) < offset + 3 THEN ParseError
  ELSE LET result == At(data, offset + 1)
           errorCode == At(data, offset + 2)
           o == offset + 3
       IN  IF result # ResultSuccess
             THEN APIKeyResponse("ok", result, errorCode, <<>>, 0)
             ELSE IF Len(data) < o + 2 THEN ParseError
             ELSE LET keyLen == Uint16(data, o)
                  IN  IF Len(data) < o + 2 + keyLen THEN ParseError
                      ELSE IF Len(data) < o + 2 + keyLen + 8 THEN ParseError
                      ELSE APIKeyResponse("ok", result, errorCode,
                                          SubSeq(data, o + 3, o + 2 + keyLen),
                                          Uint64(data, o + 2 + keyLen))

\* ParseAPIKeyResponse(data): a type byte at offset 2 means the form with
\* the length in front; the variant reads the type at offset 0 only
ParseAPIKeyResponse_NoSniff(data) ==
  IF Len(data) < 1 THEN ParseError
  ELSE IF At(data, 0) = MsgAPIKeyResponse THEN parseAPIKeyResponseFromOffset(data, 0)
  ELSE ParseError
ParseAPIKeyResponse(data) ==
  IF Len(data) < 1 THEN ParseError
  ELSE IF Len(data) >= 3 /\ At(data, 2) = MsgAPIKeyResponse
    THEN IF Len(data) < Uint16(data, 0) + 2
           THEN ParseError
           ELSE parseAPIKeyResponseFromOffset(data, 2)
  ELSE IF At(data, 0) = MsgAPIKeyResponse THEN parseAPIKeyResponseFromOffset(data, 0)
  ELSE ParseError

\* the responses a router can send: either result, an error code that is 0,
\* a defined code or the byte 0x21, a key of up to MaxKeyLen bytes, and an
\* expiry
Responses ==
  LET RespBytes == {0, ErrRateLimited, MsgAPIKeyResponse}
      KeyBytes == {MsgAPIKeyResponse, MsgAPIKeyResponse + 1}
      Keys == UNION {[1..n -> KeyBytes] : n \in 0..MaxKeyLen}
      ExpiresVals == {0, 1, 256 * MsgAPIKeyResponse + 1}
  IN  {APIKeyResponse("ok", r, e, k, x) :
         r \in {ResultSuccess, ResultFailure}, e \in RespBytes, k \in Keys,
         x \in ExpiresVals}

\* the struct a response stands for: a failure carries no key and no expiry
Meaning(v) ==
  IF v.result = ResultSuccess THEN v ELSE APIKeyResponse("ok", v.result, v.errorCode, <<>>, 0)

\* ParseAPIKeyResponse applied to the canonical bytes of the response
ParseCanonical ==
  /\ parse.canon.st = "none"
  /\ parse' = [parse EXCEPT !.canon = ParseAPIKeyResponse(Canonical(parse.val))]
  /\ UNCHANGED <<ctlVars, startVars, hbVars, senderVars, webVars, rxVars, bootVars, monPc,
                 stopCh, nodeVars, lockVars, startCalls>>

\* ParseAPIKeyResponse applied to the length-prefixed bytes of the response
ParseLengthPrefixed ==
  /\ parse.legacy.st = "none"
  /\ parse' = [parse EXCEPT !.legacy = ParseAPIKeyResponse(LengthPrefixed(parse.val))]
  /\ UNCHANGED <<ctlVars, startVars, hbVars, senderVars, webVars, rxVars, bootVars, monPc,
                 stopCh, nodeVars, lockVars, startCalls>>

ParseInit ==
  /\ ClientInit
  /\ ForwarderInit(TRUE, 0)
  /\ \E v \in Responses : parse = [val |-> v, canon |-> NoResponse, legacy |-> NoResponse]
  /\ LocksInit /\ NoStart

ParseNext == ParseCanonical \/ ParseLengthPrefixed

ParseSpec == ParseInit /\ [][ParseNext]_vars

\* ============================================ Forwarder.receiveFromServer
\* a frame of the router arrives on the sender node in use while
\* receiveFromServer runs: the loop takes events from the channel it got
\* when it started; a frame it takes goes to f.listenerNode.WriteMessageAll
RouterFrame ==
  /\ Alive
  /\ senderOpen
  /\ srvEvents \in {"current", "stale"}
  /\ srvOut' = IF srvEvents = "current" THEN "forwarded" ELSE "unread"
  /\ UNCHANGED <<ctlVars, startVars, hbVars, senderVars, webVars, rxVars, bootVars, monPc,
                 stopCh, srvEvents, oldOpen, wroteOn, parse, lockVars, startCalls>>

\* the forwarder of FwdSpec with the router sending frames down
SrvNext == FwdNext \/ RouterFrame

SrvSpec == FwdInit /\ [][SrvNext]_vars

\* ================================= the sender node under the IP monitor
\* the forwarder from forwarder.New on with checkIP() statement by
\* statement next to the heartbeat loop and receiveAndForward; the
\* listener delivers frames of the flight controller
NodeNext ==
  \/ \E ipOk \in BOOLEAN : New(ipOk)
  \/ FwdStart
  \/ FwdStartWait
  \/ \E ok \in BOOLEAN : ClientStart(ok)
  \/ SetAuthClient
  \/ HBBegin
  \/ HBTick
  \/ HBWrite
  \/ \E fr \in {f \in Frames : f.sys = pixhawkSysID /\ f.msg = "OTHER"} : ReceiveFrame(fr)
  \/ MonDetect
  \/ MonClose
  \/ \E nodeOk \in BOOLEAN : MonRebuild(nodeOk)
  \/ MonForceReconnect
  \/ MonHealthy
  \/ \E ip \in IPs : IPChange(ip)

NodeSpec == FwdInit /\ [][NodeNext]_vars

\* ======================================================= Forwarder.Stop
\* Forwarder.Stop() on main's task once the forwarder runs with main's
\* client: close(f.stopCh); authClient.Stop(), which clears running,
\* closes c.stopCh and closes c.conn without clearing the field; then the
\* listener and the sender node are closed
ForwarderStop ==
  /\ mainPc = "run"
  /\ mainPc' = "stopped"
  /\ stopCh' = TRUE
  /\ running' = FALSE
  /\ open' = open \ {conn}
  /\ broken' = broken \ {conn}
  /\ wire' = ClosedWire(wire, conn)
  /\ senderOpen' = CloseSender(senderOpen)
  /\ UNCHANGED <<envVars, sessVars, conn, previousLocalIP, lastIPChangeTime, tcpMu, pc,
                 lconn, ret, rerr, parsedAck, cbVars, authEnabled, authClient, startClient,
                 waited, monitoring, loops, hbVars, isHealthy, previousIP, senderSysID,
                 rebuilt, webVars, rxVars, bootVars, monPc, nodeVars, parse, lockVars, startCalls>>

\* c.stopCh as the keepalive loop sees it: Stop() of the forwarder stops
\* the client it holds; the variant leaves the client running
ClientStopCh_NotStopped == FALSE
ClientStopCh == stopCh

\* case <-f.stopCh: return in receiveAndForward
ReceiveAndForwardExit ==
  /\ stopCh
  /\ loops
  /\ loops' = FALSE
  /\ UNCHANGED <<ctlVars, authEnabled, mainPc, authClient, startClient, waited, monitoring,
                 hbVars, senderVars, webVars, rxVars, bootVars, monPc, auxVars>>

\* case <-f.stopCh: return in receiveFromServer
ReceiveFromServerExit ==
  /\ stopCh
  /\ srvEvents \in {"current", "stale"}
  /\ srvEvents' = "done"
  /\ UNCHANGED <<ctlVars, startVars, hbVars, senderVars, webVars, rxVars, bootVars, monPc,
                 stopCh, srvOut, oldOpen, wroteOn, parse, lockVars, startCalls>>

\* case <-f.stopCh: return in sendMavlinkSessionHeartbeat
HeartbeatExit ==
  /\ stopCh
  /\ hbPc = "tick"
  /\ hbPc' = "done"
  /\ UNCHANGED <<ctlVars, startVars, hbMsg, firstSent, sequence, hbCount, udpHeartbeatSent,
                 senderVars, webVars, rxVars, bootVars, monPc, auxVars>>

\* case <-f.stopCh: return in monitorIPChange, between two checkIP() calls
MonitorExit ==
  /\ stopCh
  /\ monitoring
  /\ monPc = "idle"
  /\ monitoring' = FALSE
  /\ UNCHANGED <<ctlVars, authEnabled, mainPc, authClient, startClient, waited, loops,
                 hbVars, senderVars, webVars, rxVars, bootVars, monPc, auxVars>>

\* case <-c.stopCh: return in keepaliveLoop, between two ticks
KeepaliveExit ==
  /\ ClientStopCh
  /\ pc["K"] = "idle"
  /\ pc' = [pc EXCEPT !["K"] = "stopped"]
  /\ UNCHANGED <<envVars, sessVars, connVars, running, tcpMu, wire, lconn, ret, rerr,
                 parsedAck, cbVars, fwdVars>>

\* the program running: main has passed fwd.SetAuthClient, the client
\* holds the session of its first AUTH_ACK on the connection it dialled one
\* ipChangeThreshold ago, the loops of Start() are at their select; the
\* heartbeat loop has built seq messages and written n of them
Running(seq, n) ==
  /\ now = 1
  /\ keepaliveInterval = DefaultRefreshInterval
  /\ localIP = "ipA"
  /\ sessionToken = 1
  /\ expiresAt = MaxExp
  /\ refreshInterval = DefaultRefreshInterval
  /\ conn = 1
  /\ running = TRUE
  /\ tcpMu = "free"
  /\ previousLocalIP = "ipA"
  /\ lastIPChangeTime = 0
  /\ open = {1}
  /\ broken = {}
  /\ wire = [c \in ConnIds |-> <<>>]
  /\ pc = [t \in {"K", "W"} |-> "idle"]
  /\ lconn = [t \in {"K", "W"} |-> NoConn]
  /\ ret = [t \in {"K", "W"} |-> IF t = "K" THEN "start" ELSE "none"]
  /\ rerr = NoErr
  /\ parsedAck = NoRep
  /\ networkErrors = 0
  /\ tickerPeriod = 0
  /\ recConn = NoConn
  /\ ipHandled = FALSE
  /\ authEnabled = TRUE
  /\ mainPc = "run"
  /\ authClient = "main"
  /\ startClient = "own"
  /\ waited = "grace"
  /\ monitoring = TRUE
  /\ loops = TRUE
  /\ hbPc = "tick"
  /\ hbMsg = NoMsg
  /\ firstSent = (n > 0)
  /\ sequence = seq
  /\ hbCount = n
  /\ udpHeartbeatSent = (IF n > 0 THEN 1 ELSE 0)
  /\ isHealthy = TRUE
  /\ previousIP = "ipA"
  /\ senderOpen = TRUE
  /\ senderSysID = OutSystemID(DefaultSysID + 1)
  /\ rebuilt = FALSE
  /\ pixhawkSysID = DefaultSysID + 1
  /\ webConnected = TRUE
  /\ lastSeqNum = [i \in SysIDs |-> NoSeq]
  /\ sent = 0
  /\ failedUnhealthy = 0
  /\ failedSend = 0
  /\ failedPackets = 0
  /\ forwardedCount = 0
  /\ nRecv = 0
  /\ rx = NoFrame
  /\ rxOut = "none"
  /\ registerFlag = FALSE
  /\ allowMissing = FALSE
  /\ regState = "none"
  /\ regConn = NoConn
  /\ discovery = "connected"
  /\ monPc = "idle"
  /\ stopCh = FALSE
  /\ srvEvents = "current"
  /\ srvOut = "none"
  /\ oldOpen = FALSE
  /\ wroteOn = [hb |-> "none", rx |-> "none"]
  /\ parse = NoParse /\ LocksInit /\ NoStart

\* Stop() can come before the first heartbeat
StopInit == Running(0, 0)

\* the running program: the keepalive loop and the IP monitor statement by
\* statement, and Stop() at any moment; the frame handlers of the two
\* receive loops and the heartbeat's write run to completion without
\* waiting, so these three loops are at their select whenever Stop() runs
StopNext ==
  \/ MonDetect
  \/ MonClose
  \/ \E nodeOk \in BOOLEAN : MonRebuild(nodeOk)
  \/ MonForceReconnect
  \/ MonHealthy
  \/ SendRefreshLock("K")
  \/ SendRefreshReconnect("K")
  \/ SendRefreshWrite("K")
  \/ SendRefreshRead("K")
  \/ KeepaliveClassify
  \/ KeepaliveNetworkError
  \/ AuthBegin("K")
  \/ AuthDial("K")
  \/ AuthWriteInit("K")
  \/ AuthReadChallenge("K")
  \/ AuthWriteResponse("K")
  \/ AuthReadAck("K")
  \/ AuthReturn("K")
  \/ IPChange("ipB")
  \/ ForwarderStop
  \/ ReceiveAndForwardExit
  \/ ReceiveFromServerExit
  \/ HeartbeatExit
  \/ MonitorExit
  \/ KeepaliveExit

\* every socket operation of the client has a deadline and checkIP() has no
\* loop, so a goroutine inside a handler gets back to its select; a select
\* with the closed stop channel among its ready cases picks it sooner or
\* later
KeepaliveStep ==
  \/ SendRefreshReconnect("K")
  \/ SendRefreshWrite("K")
  \/ SendRefreshRead("K")
  \/ KeepaliveClassify
  \/ KeepaliveNetworkError
  \/ AuthBegin("K")
  \/ AuthDial("K")
  \/ AuthWriteInit("K")
  \/ AuthReadChallenge("K")
  \/ AuthWriteResponse("K")
  \/ AuthReadAck("K")
  \/ AuthReturn("K")

CheckIPStep ==
  \/ MonClose
  \/ \E nodeOk \in BOOLEAN : MonRebuild(nodeOk)
  \/ MonForceReconnect
  \/ MonHealthy

StopFairness ==
  /\ WF_vars(KeepaliveStep)
  /\ WF_vars(CheckIPStep)
  /\ WF_vars(ReceiveAndForwardExit)
  /\ WF_vars(ReceiveFromServerExit)
  /\ WF_vars(HeartbeatExit)
  /\ SF_vars(MonitorExit)
  /\ WF_vars(KeepaliveExit)

StopSpec == StopInit /\ [][StopNext]_vars /\ StopFairness

\* the running program with its heartbeat loop, young or about to wrap
\* its sequence counter, all earlier heartbeats written; the IP monitor
\* rebuilds the sender, the keepalive loop refreshes and re-authenticates
SeqInit == \E s \in {0, 65536 - MaxHB} : Running(s, s)

SeqNext ==
  \/ HBTick
  \/ HBWrite
  \/ MonDetect
  \/ MonClose
  \/ \E nodeOk \in BOOLEAN : MonRebuild(nodeOk)
  \/ MonForceReconnect
  \/ MonHealthy
  \/ SendRefreshLock("K")
  \/ SendRefreshReconnect("K")
  \/ SendRefreshWrite("K")
  \/ SendRefreshRead("K")
  \/ KeepaliveClassify
  \/ KeepaliveNetworkError
  \/ AuthBegin("K")
  \/ AuthDial("K")
  \/ AuthWriteInit("K")
  \/ AuthReadChallenge("K")
  \/ AuthWriteResponse("K")
  \/ AuthReadAck("K")
  \/ AuthReturn("K")
  \/ IPChange("ipB")

SeqSpec == SeqInit /\ [][SeqNext]_vars

\* ------------------------------------- monitorIPChange after a failed rebuild
\* the forwarder with its IP monitor and the frames of the flight
\* controller; the host moves to a new IP once and stays there; the
\* monitor's ticker fires every 5 s and checkIP() runs to its end
RetryNext ==
  \/ \E ipOk \in BOOLEAN : New(ipOk)
  \/ FwdStart
  \/ FwdStartWait
  \/ \E fr \in {f \in Frames : f.sys = pixhawkSysID /\ f.msg = "OTHER"} : ReceiveFrame(fr)
  \/ MonDetect
  \/ MonClose
  \/ \E nodeOk \in BOOLEAN : MonRebuild(nodeOk)
  \/ MonForceReconnect
  \/ MonHealthy
  \/ IPChange("ipB")

RetrySpec ==
  FwdInit /\ [][RetryNext]_vars /\ WF_vars(MonDetect) /\ WF_vars(CheckIPStep)

\* ================================================================ claims
\* the tasks that have written a request and have not finished reading
\* (or timing out on) its reply
Outstanding == {t \in {"K", "W"} : pc[t] \in {"auth_r1", "auth_r2", "ref_read", "w_read"}}

\* C1: at most one control-channel request is outstanding at any time,
\* across refresh, the API-key operations and authenticate()
C1_OneOutstanding == Cardinality(Outstanding) <= 1

\* task t reads a reply from its connection in this step
ReadsReply(t) ==
  /\ pc[t] \in {"auth_r1", "auth_r2", "ref_read", "w_read"}
  /\ pc'[t] # pc[t]
  /\ HasReply(lconn[t])
  /\ wire'[lconn[t]] = Tail(wire[lconn[t]])

\* C2: every reply an operation reads is the reply to the request that same
\* operation wrote, whatever the delay of the replies
C2_RepliesPaired ==
  [][\A t \in {"K", "W"} :
       ReadsReply(t) => (Reply(lconn[t]).by = t /\ ~Reply(lconn[t]).stale)]_vars

\* the keepalive loop takes the result of sendRefresh in this step
ClassifyStep == pc["K"] = "ref_done" /\ pc'["K"] # "ref_done"

\* C7: a refresh rejected with 0x07 or 0x06 makes the keepalive loop call
\* authenticate(); the connection is not closed, the handshake runs on the
\* connection the client holds, and its success replaces the session token
C7_ReauthOnSameConn ==
  [][/\ (ClassifyStep /\ rerr.cause = "reject"
           /\ rerr.code \in {ErrInvalidToken, ErrSessionExpired})
          => (pc'["K"] = "auth_begin" /\ ret'["K"] = "reauth"
                /\ conn' = conn /\ open' = open)
     /\ (pc["K"] = "auth_begin" /\ pc'["K"] # "auth_begin"
           /\ ret["K"] = "reauth" /\ conn # NoConn)
          => (pc'["K"] = "auth_w1" /\ lconn'["K"] = conn /\ conn' = conn
                /\ open' = open)
     /\ (pc["K"] = "auth_r2" /\ pc'["K"] = "auth_ok" /\ ret["K"] = "reauth")
          => (sessionToken' = parsedAck'.tok /\ parsedAck'.tok # NoToken)]_vars

\* C7 witness: a re-authentication started by a rejected refresh has
\* succeeded on the connection the client still holds
C7_Witness ==
  /\ pc["K"] = "auth_ok"
  /\ ret["K"] = "reauth"
  /\ lconn["K"] = conn
  /\ conn \in open
  /\ sessionToken # NoToken

\* C8: a successful SESSION_REFRESH_ACK changes only expires_at, whatever
\* interval it carries; a successful AUTH_ACK replaces the whole triple
C8_AckEffects ==
  [][/\ (pc["K"] = "ref_read" /\ pc'["K"] = "ref_done" /\ rerr'.cause = "ack")
          => /\ expiresAt' = parsedAck'.exp
             /\ sessionToken' = sessionToken
             /\ refreshInterval' = refreshInterval
     /\ (pc["K"] = "auth_r2" /\ pc'["K"] = "auth_ok")
          => /\ sessionToken' = parsedAck'.tok
             /\ expiresAt' = parsedAck'.exp
             /\ refreshInterval' = parsedAck'.ivl]_vars

\* C8 witness: a refresh was acknowledged with an interval that differs from
\* the session's
C8_Witness ==
  /\ pc["K"] = "ref_done"
  /\ rerr.cause = "ack"
  /\ parsedAck.ivl # refreshInterval
  /\ sessionToken # NoToken

\* an operation meets a socket-level error in this step
SocketErrorStep ==
  \/ APIKeyReadError
  \/ pc["W"] = "w_write" /\ pc'["W"] = "idle"
  \/ pc["K"] \in {"auth_w1", "auth_w2"} /\ pc'["K"] = "auth_err"
  \/ pc["K"] \in {"auth_r1", "auth_r2"} /\ pc'["K"] = "auth_err" /\ wire' = wire
  \/ ClassifyStep /\ rerr.cause \in {"write", "read"}

\* C9: any socket-level error in any operation closes the connection and
\* fires OnNetworkError
C9_SocketErrorIsNetwork ==
  [][SocketErrorStep => (conn' = NoConn /\ networkErrors' > networkErrors)]_vars

\* C10: a refresh rejected with a code other than 0x06 and 0x07 closes
\* nothing and starts neither a re-authentication nor a reconnect
C10_OtherRejectIsCommandFailure ==
  [][(ClassifyStep /\ rerr.cause = "reject"
        /\ rerr.code \notin {ErrInvalidToken, ErrSessionExpired})
       => (conn' = conn /\ open' = open /\ pc'["K"] = "idle")]_vars

\* receiveAndForward took a frame in this step
RecvStep == nRecv' # nRecv

\* C3: a frame with system id 255 is never written to the sender and never
\* counted in sent, failed_unhealthy or failed_send, whatever the state of
\* the sender
C3_GCSFrameNotForwarded ==
  [][(RecvStep /\ rx'.sys = GCSSystemID)
       => (rxOut' = "skip_gcs"
             /\ UNCHANGED <<sent, failedUnhealthy, failedSend, lastSeqNum>>)]_vars

\* C3 witness: a ground-station frame was skipped after the sender had been
\* rebuilt for a new IP
C3_Witness ==
  /\ rx.sys = GCSSystemID
  /\ rxOut = "skip_gcs"
  /\ rebuilt
  /\ sent + failedSend > 0

\* C4: a frame (s, seq) is dropped, uncounted, exactly when seq is the
\* sequence recorded last for s; otherwise seq is recorded and the frame
\* goes on to the sender; the first frame of a system id is never dropped
C4_Dedup ==
  [][(RecvStep /\ rx'.sys # GCSSystemID)
       => IF lastSeqNum[rx'.sys] = rx'.seq
            THEN /\ rxOut' = "dup"
                 /\ UNCHANGED <<sent, failedUnhealthy, failedSend, lastSeqNum>>
            ELSE /\ lastSeqNum' = [lastSeqNum EXCEPT ![rx'.sys] = rx'.seq]
                 /\ rxOut' \in {"sent", "send_failed", "unhealthy"}
                 /\ sent' + failedSend' + failedUnhealthy'
                      = sent + failedSend + failedUnhealthy + 1]_vars

\* C4 witness: the first frame ever seen, with sequence 0, was sent and
\* counted, and the same frame arriving again was dropped
C4_Witness ==
  /\ nRecv = 2
  /\ rx = [sys |-> DefaultSysID, seq |-> 0]
  /\ rxOut = "dup"
  /\ sent = 1
  /\ lastSeqNum[DefaultSysID] = 0

\* C5: no SESSION_HEARTBEAT is written while the auth client's session
\* token is empty
C5_HeartbeatAfterToken ==
  [][(hbCount' # hbCount)
       => (hbMsg.tok # NoToken /\ ClientToken(authClient) # NoToken
             /\ sessionToken # NoToken)]_vars

\* C5 witness: a SESSION_HEARTBEAT was written with the session's token
C5_Witness ==
  /\ hbCount > 0
  /\ firstSent
  /\ authClient = "main"
  /\ sessionToken # NoToken

\* C6: when Start() found an auth client, the receive loop forwards no
\* frame before the first SESSION_HEARTBEAT was written or the 5 s grace
\* elapsed
C6_ForwardAfterHeartbeatOrGrace ==
  (startClient # "nil" /\ (loops \/ nRecv > 0))
    => (hbCount > 0 \/ waited = "grace")

\* C6 witness: with an auth client a frame was sent after the grace elapsed
C6_Witness ==
  /\ startClient # "nil"
  /\ waited = "grace"
  /\ sent > 0


C18_NoDialBeforeDiscoveryExit ==
  (mainPc = "exit" /\ discovery = "timeout" /\ ~allowMissing) => regState = "none"

\* ---------------------------------------------------------------- C12
\* C12: on every detected IP change the monitor records the IP, closes
\* the old sender, installs the rebuilt one, calls ForceReconnect() on the
\* running control channel and marks the forwarder healthy, in this order
\* and to the end; and between the detection and the ForceReconnect() no
\* SESSION_REFRESH is written on the control connection.
C12_MonitorOrder ==
  [][/\ monPc' # monPc
          => <<monPc, monPc'>> \in {<<"idle", "close">>, <<"close", "rebuild">>,
                                     <<"rebuild", "force">>, <<"force", "healthy">>,
                                     <<"healthy", "idle">>}
     /\ (monPc = "force" /\ monPc' = "healthy" /\ running) => ipHandled'
     /\ (monPc \in {"close", "rebuild", "force"} /\ running)
          => ~(pc["K"] = "ref_write" /\ pc'["K"] = "ref_read")]_vars

\* ---------------------------------------------------------------- C13
\* C13: the first sendRefresh() after a handled IP change (sender
\* rebuilt, ForceReconnect() called) returns at the ip_change_threshold
\* test and sends no SESSION_REFRESH.
C13_NextRefreshSkipped ==
  [][(ipHandled /\ pc["K"] = "idle" /\ pc'["K"] # "idle") => rerr'.cause = "skip"]_vars

\* ---------------------------------------------------------------- C14
\* C14: ForceReconnect() and reconnectTCP() leave the session token,
\* expiresAt and the refresh interval unchanged, and from the
\* ForceReconnect() to the write of the next SESSION_REFRESH on the new
\* connection the session is the one held before the change.
C14_SessionPreserved ==
  [][/\ (monPc = "force" /\ monPc' = "healthy") => UNCHANGED sessVars
     /\ (pc["K"] \in {"ref_reconn", "ka_net"} /\ pc'["K"] # pc["K"]) => UNCHANGED sessVars
     /\ ((ipHandled /\ pc["K"] = "idle") \/ pc["K"] \in {"ref_reconn", "ref_write"})
          => UNCHANGED sessVars]_vars

\* after a handled IP change the refresh went out on a connection that
\* reconnectTCP() dialled from the new address, with a session in place
C14_Witness ==
  /\ rebuilt
  /\ authClient = "main"
  /\ monPc = "idle"
  /\ previousIP = "ipB"
  /\ previousLocalIP = "ipB"
  /\ pc["K"] = "ref_read"
  /\ conn # NoConn
  /\ sessionToken # NoToken

InAuthenticate(t) ==
  pc[t] \in {"auth_begin", "auth_dial", "auth_w1", "auth_r1", "auth_w2", "auth_r2"}

C19_AuthSerialized == ~(InAuthenticate("K") /\ InAuthenticate("W"))

\* ---------------------------------------------------------------- C20
\* C20: once started, the keepalive loop enters authenticate() only when
\* the local token is absent or expired, or when the router answered the
\* refresh with invalid-token (0x07) or session-expired (0x06); a network
\* failure while the token is within its lifetime never leads to a full
\* re-authentication.
C20_ReauthOnlyOnTokenLoss ==
  [][(pc["K"] \in {"ref_done", "ka_net"} /\ pc'["K"] = "auth_begin")
       => \/ sessionToken = NoToken
          \/ now >= expiresAt
          \/ (pc["K"] = "ref_done" /\ NeedReauth(rerr))]_vars

\* ---------------------------------------------------------------- C21
\* C21: while the session is active the refresh ticker's period is not
\* larger than the session's refresh interval (30 s standing for an
\* interval of 0), also after a re-authentication changed the interval.
C21_PeriodWithinInterval ==
  (running /\ tickerPeriod # 0 /\ sessionToken # NoToken /\ now < expiresAt)
    => tickerPeriod <= (IF refreshInterval = 0 THEN DefaultRefreshInterval
                        ELSE refreshInterval)

\* ---------------------------------------------------------------- C22
\* C22: a session stored from a successful AUTH_ACK is not yet expired
\* and has a positive refresh interval at the moment it is stored.
C22_StoredSessionValid ==
  [][(pc["K"] = "auth_r2" /\ pc'["K"] = "auth_ok")
       => (now < expiresAt' /\ refreshInterval' > 0)]_vars

\* ---------------------------------------------------------------- C23
\* C23: TriggerSessionRecovery() writes SESSION_NEW only after the
\* sendRefresh() of the same call failed, and only on the connection the
\* client holds at that moment; with no valid token, or after a failed
\* SESSION_NEW, it runs authenticate().
C23_CheapestFirst ==
  [][/\ (pc["W"] = "new_write" /\ pc'["W"] = "new_read")
          => (ret["W"] = "new_fallback" /\ recConn = conn /\ conn \in open)
     /\ (pc["W"] = "idle" /\ ret["W"] = "none" /\ ret'["W"] # "none"
           /\ ~(sessionToken # NoToken /\ now < expiresAt))
          => pc'["W"] = "auth_begin"
     /\ (pc["W"] \in {"new_write", "new_read"}
           /\ pc'["W"] \notin {"new_write", "new_read", "idle"})
          => pc'["W"] = "auth_begin"]_vars

\* C29: the sender node the forwarder holds, the one New() built as well as
\* every one checkIP() rebuilt after an IP change, has as OutSystemID the
\* system id discovery gave to the web bridge (1 when it gave none)
C29_SenderUsesDiscoveredID ==
  (mainPc # "discovered" /\ senderOpen) => senderSysID = OutSystemID(pixhawkSysID)

\* C28: when the client the forwarder holds has a session token the
\* heartbeat can carry, Start() leaves its wait because the first
\* SESSION_HEARTBEAT was written, not because the 5 s grace ran out, so
\* that a heartbeat has gone out by the time receiveAndForward starts
C28_FirstHeartbeatReleasesStart ==
  [][(mainPc = "waiting" /\ mainPc' = "fstarted"
        /\ SessionReady(ClientToken(authClient)))
       => (waited' = "heartbeat" /\ hbCount > 0)]_vars

\* C25: a SESSION_HEARTBEAT that is written carries the token and the
\* expiry the client holds at that moment: the token of the current
\* session with that session's expires_at
C25_HeartbeatMatchesSession ==
  [][hbCount' > hbCount
       => (hbMsg.tok = ClientToken(authClient) /\ hbMsg.exp = ClientExpiresAt(authClient))]_vars

\* C27 as stated: whatever the response, ParseAPIKeyResponse succeeds on
\* its canonical bytes and on its length-prefixed bytes and returns the
\* same struct for both
C27_BothEncodingsParse ==
  (parse.canon.st # "none" /\ parse.legacy.st # "none")
    => (parse.canon.st = "ok" /\ parse.legacy.st = "ok" /\ parse.canon = parse.legacy)

\* C27, amended: for every response whose error code is not the byte 0x21,
\* ParseAPIKeyResponse succeeds on both encodings and returns for both the
\* struct the response stands for
C27_BothEncodingsParseUnlessTypeByte ==
  (parse.canon.st # "none" /\ parse.legacy.st # "none"
     /\ parse.val.errorCode # MsgAPIKeyResponse)
    => (parse.canon = Meaning(parse.val) /\ parse.legacy = Meaning(parse.val))

C27_Witness ==
  /\ parse.val.result = ResultSuccess
  /\ Len(parse.val.apiKey) = MaxKeyLen
  /\ parse.val.expiresAt > 1
  /\ parse.canon.st = "ok"
  /\ parse.legacy.st = "ok"
  /\ parse.legacy = parse.val

\* C30: a frame the router sends to the sender node in use is taken by
\* receiveFromServer and written to the listener, also when that node was
\* built by the IP monitor after an IP change
C30_DownstreamFollowsSender == srvOut # "unread"

C24_LoopsExitAfterStop ==
  stopCh ~> (/\ ~loops
             /\ srvEvents = "done"
             /\ hbPc = "done"
             /\ ~monitoring
             /\ pc["K"] = "stopped")

\* all loops have returned after a rebuild, and the keepalive loop had a
\* refresh pending when Stop() closed its connection: it dialled again
\* before it returned
C24_Witness ==
  /\ stopCh
  /\ rebuilt
  /\ ~loops /\ srvEvents = "done" /\ hbPc = "done" /\ ~monitoring /\ pc["K"] = "stopped"
  /\ conn \in open

\* C31: the sender is replaced atomically on an IP change: no upstream
\* frame and no SESSION_HEARTBEAT is written to a sender node that was
\* closed before the write, so no write on the sender fails while
\* checkIP() replaces it
C31_NoWriteOnClosedSender ==
  [][/\ failedSend' = failedSend
     /\ (hbPc = "write" /\ hbPc' = "tick") => hbCount' = hbCount + 1]_vars

\* C32: start-up runs in the fixed order listener, discovery, sender,
\* forwarder start, and only then Register() (with -register) and
\* authenticate(): every step that begins a control-channel operation is
\* taken after discovery has finished and the forwarder has been started
C32_ControlChannelAfterForwarderStart ==
  [][((regState = "none" /\ regState' # "none") \/ (pc["K"] = "start" /\ pc'["K"] # "start"))
       => (mainPc = "fstarted" /\ discovery # "pending")]_vars

\* C33: a reply to SESSION_REFRESH that is truncated or carries the wrong
\* type byte is fatal for that message only: the keepalive loop logs the
\* error and goes back to its ticker with the same connection still open
\* and the session unchanged, without reconnect and without
\* re-authentication
C33_CodecErrorKeepsConnection ==
  [][(pc["K"] = "ref_done" /\ rerr.cause = "parse" /\ pc'["K"] # "ref_done")
       => (/\ pc'["K"] = "idle"
           /\ conn' = conn
           /\ open' = open
           /\ sessVars' = sessVars)]_vars

\* the heartbeat loop builds a message in this step
BuildsHeartbeat == hbPc = "tick" /\ hbPc' = "write"

C35_PeriodIsKeepaliveInterval ==
  [][(tickerPeriod = 0 /\ tickerPeriod' # 0 /\ refreshInterval = 0)
       => tickerPeriod' = keepaliveInterval]_vars

\* C36: the IP monitor recovers from a failed rebuild of the sender: when
\* checkIP() has returned with the sender closed, a later check rebuilds it
\* (or tries to), so the forwarder does not stay with a closed sender while
\* the new IP remains in place
C36_FailedRebuildRetried ==
  (monitoring /\ monPc = "idle" /\ ~senderOpen) ~> (senderOpen \/ monPc = "rebuild")

ReadFields == <<"mu.RLock", "mu.RUnlock">>

\* reconnectTCP(): the old connection is closed under c.mu.RLock(), the
\* dial, and when it succeeded c.conn is set under c.mu.Lock()
ReconnectFailed == <<"mu.RLock", "mu.RUnlock", "io">>
ReconnectDone == ReconnectFailed \o <<"mu.Lock", "mu.Unlock">>

\* the two ways an operation gets the connection it writes on: c.conn was
\* set, or it was nil and the inline reconnectTCP() succeeded
Connected == {<<"tcpMu.Lock">> \o ReadFields,
              <<"tcpMu.Lock">> \o ReadFields \o ReconnectDone \o ReadFields}

\* sendRefresh(): the skip and the missing token, the failed reconnect, the
\* failed write, the failed read / parse / rejection, and the success that
\* updates c.expiresAt under c.mu.Lock(); the deferred Unlock ends every path
SendRefreshPaths ==
  {<<"tcpMu.Lock">> \o ReadFields \o <<"tcpMu.Unlock">>,
   <<"tcpMu.Lock">> \o ReadFields \o ReconnectFailed \o <<"tcpMu.Unlock">>}
  \cup {p \o <<"io", "tcpMu.Unlock">> : p \in Connected}
  \cup {p \o <<"io", "mu.Lock", "mu.Unlock", "tcpMu.Unlock">> : p \in Connected}

\* RequestAPIKey, RevokeAPIKey, GetAPIKeyStatus and DeleteAPIKey take the
\* locks alike: not running or no session, the failed reconnect, the failed
\* write, and the read after which tcpMu is released
APIKeyOps == {"RequestAPIKey", "RevokeAPIKey", "GetAPIKeyStatus", "DeleteAPIKey"}
APIKeyPaths(op) ==
  {<<"tcpMu.Lock">> \o ReadFields \o <<"tcpMu.Unlock">>,
   <<"tcpMu.Lock">> \o ReadFields \o ReconnectFailed \o <<"tcpMu.Unlock">>}
  \cup {p \o <<"io", "tcpMu.Unlock">> : p \in Connected}

\* checkIP() after the sender was rebuilt: ForceReconnect() takes tcpMu and
\* releases it (defer), then isHealthy is set under f.mu
CheckIPPath == <<"tcpMu.Lock", "tcpMu.Unlock", "fmu.Lock", "fmu.Unlock">>
\* the OnNetworkError callback takes f.mu alone, and so does SetAuthClient
\* (deferred Unlock), which only assigns the client and the callback under it
OnNetworkErrorPath == <<"fmu.Lock", "fmu.Unlock">>
SetAuthClientPath == <<"fmu.Lock", "fmu.Unlock">>
\* GetSessionInfo(): c.mu.RLock() with a deferred RUnlock
GetSessionInfoPath == <<"mu.RLock", "mu.RUnlock">>

\* the calls each task makes
Calls(t) ==
  CASE t = "K" -> SendRefreshPaths
    [] t = "W" -> UNION {APIKeyPaths(o) : o \in APIKeyOps}
    [] t = "M" -> {CheckIPPath}
    [] t = "C" -> {OnNetworkErrorPath, SetAuthClientPath}
    [] OTHER -> {GetSessionInfoPath}

\* the next lock operation of task t ("none" between calls)
NextOp(t) == IF lk[t] = Idle THEN "none" ELSE Head(lk[t])

\* sync.RWMutex: a writer that called Lock() keeps new readers out
WriterPending(t) == \E u \in LockTasks \ {t} : NextOp(u) = "mu.Lock"

\* sync.Mutex.Unlock() / the deferred c.tcpMu.Unlock()
Unlock_Leak(t) == t
Unlock(t) == "free"

\* task t calls an operation
LockCall(t) ==
  /\ lk[t] = Idle
  /\ \E c \in Calls(t) : lk' = [lk EXCEPT ![t] = c]
  /\ UNCHANGED <<envVars, sessVars, connVars, running, tcpMu, wire, pc, lconn, ret, rerr,
                 parsedAck, cbVars, startVars, hbVars, senderVars, webVars, rxVars,
                 bootVars, monPc, stopCh, nodeVars, parse, mu, fmu, startCalls>>

\* task t makes the next lock operation of its call; a Lock() or RLock()
\* that is not granted blocks it. After the last one the call has returned.
LockStep(t) ==
  /\ lk[t] # Idle
  /\ LET ins == Head(lk[t]) IN
       CASE ins = "tcpMu.Lock" ->
              tcpMu = "free" /\ tcpMu' = t /\ UNCHANGED <<mu, fmu>>
         [] ins = "tcpMu.Unlock" ->
              tcpMu' = Unlock(t) /\ UNCHANGED <<mu, fmu>>
         [] ins = "mu.RLock" ->
              /\ mu.w = "free" /\ ~WriterPending(t)
              /\ mu' = [mu EXCEPT !.r = @ \cup {t}]
              /\ UNCHANGED <<tcpMu, fmu>>
         [] ins = "mu.RUnlock" ->
              mu' = [mu EXCEPT !.r = @ \ {t}] /\ UNCHANGED <<tcpMu, fmu>>
         [] ins = "mu.Lock" ->
              /\ mu = NoHolder
              /\ mu' = [mu EXCEPT !.w = t]
              /\ UNCHANGED <<tcpMu, fmu>>
         [] ins = "mu.Unlock" ->
              mu' = [mu EXCEPT !.w = "free"] /\ UNCHANGED <<tcpMu, fmu>>
         [] ins = "fmu.Lock" ->
              fmu = "free" /\ fmu' = t /\ UNCHANGED <<tcpMu, mu>>
         [] ins = "fmu.Unlock" ->
              fmu' = "free" /\ UNCHANGED <<tcpMu, mu>>
         [] OTHER -> UNCHANGED <<tcpMu, mu, fmu>>
  /\ lk' = [lk EXCEPT ![t] = Tail(@)]
  /\ UNCHANGED <<envVars, sessVars, connVars, running, wire, pc, lconn, ret, rerr,
                 parsedAck, cbVars, startVars, hbVars, senderVars, webVars, rxVars,
                 bootVars, monPc, stopCh, nodeVars, parse, startCalls>>

LockNext == \E t \in LockTasks : LockCall(t) \/ LockStep(t)

\* a task inside a call keeps running, and sync.Mutex hands a lock to a
\* goroutine that waited for it (starvation mode): a Lock() that can be
\* granted again and again is granted
LockFairness == \A t \in LockTasks : SF_vars(LockStep(t))

LockSpec == Init /\ [][LockNext]_vars /\ LockFairness

\* the lock task t is asking for, and the lock it holds
Requests(t, l) ==
  \/ l = "tcpMu" /\ NextOp(t) = "tcpMu.Lock"
  \/ l = "mu" /\ NextOp(t) \in {"mu.RLock", "mu.Lock"}
  \/ l = "fmu" /\ NextOp(t) = "fmu.Lock"
Holds(t, l) ==
  \/ l = "tcpMu" /\ tcpMu = t
  \/ l = "mu" /\ (t \in mu.r \/ mu.w = t)
  \/ l = "fmu" /\ fmu = t

\* the locks each task takes
LockUses == {<<"K", "tcpMu">>, <<"K", "mu">>, <<"W", "tcpMu">>, <<"W", "mu">>,
             <<"M", "tcpMu">>, <<"M", "fmu">>, <<"C", "fmu">>,
             <<"H", "mu">>}

\* C38: tcpMu, the client's mu and the forwarder's mu never deadlock: under
\* every interleaving of sendRefresh (with its inline reconnectTCP), the four
\* API-key operations, ForceReconnect from the IP monitor, OnNetworkError and
\* SetAuthClient, a task that requests one of the locks eventually holds it,
\* and a task that is in no operation holds none of them (every path of every
\* operation has released tcpMu when it returns).
C38_LocksNeverDeadlock ==
  /\ [](\A u \in LockUses : lk[u[1]] = Idle => ~Holds(u[1], u[2]))
  /\ \A u \in LockUses : Requests(u[1], u[2]) ~> Holds(u[1], u[2])

\* the web handler waits for tcpMu while sendRefresh, holding it, waits for
\* the write lock of mu that the heartbeat loop's read lock keeps from it,
\* and the monitor waits for the forwarder's mu that the callback holds
C38_Witness ==
  /\ tcpMu = "K" /\ NextOp("K") = "mu.Lock" /\ mu.r = {"H"}
  /\ NextOp("W") = "tcpMu.Lock"
  /\ fmu = "C" /\ NextOp("M") = "fmu.Lock"

\* TriggerSessionRecovery() returns nil: sendRefresh() returned nil, or
\* requestSession(conn) read a successful SESSION_ACK, or TriggerReauth()'s
\* authenticate() succeeded
RecoveryReturnsNil ==
  /\ ret["W"] # "none"
  /\ ret'["W"] = "none"
  /\ pc["W"] # "auth_err"

\* C39: TriggerSessionRecovery() returns nil only if an exchange of the
\* control channel succeeded during the call (a SESSION_REFRESH_ACK, a
\* SESSION_ACK or an AUTH_ACK with result success was received): it never
\* reports the session as refreshed when no request was sent.
C39_NilOnlyAfterExchange ==
  [][RecoveryReturnsNil =>
       \/ ret["W"] = "refresh" /\ rerr.cause = "ack"
       \/ ret["W"] \in {"new_fallback", "new_direct"} /\ pc["W"] = "new_read"
       \/ ret["W"] = "reauth" /\ pc["W"] = "auth_ok"]_vars

\* ================================================ Client.Start called twice
\* a second call of Start(), on another task (W), while or after the first
\* runs: c.running is read under c.mu.RLock() and the lock is released; a
\* running client returns nil, otherwise the call goes on as the first does
\* and sets c.running only after its authenticate() returned
StartAgain ==
  /\ pc["W"] = "idle"
  /\ ret["W"] = "none"
  /\ IF running
       THEN UNCHANGED <<pc, ret, initialAuths>>
       ELSE /\ ret' = [ret EXCEPT !["W"] = "start"]
            /\ IF sessionToken # NoToken /\ now < expiresAt
                 THEN /\ pc' = [pc EXCEPT !["W"] = "started"]
                      /\ UNCHANGED initialAuths
                 ELSE /\ pc' = [pc EXCEPT !["W"] = "auth_begin"]
                      /\ initialAuths' = initialAuths + 1
  /\ UNCHANGED <<envVars, sessVars, connVars, running, tcpMu, wire, lconn, rerr, parsedAck,
                 cbVars, startVars, hbVars, senderVars, webVars, rxVars,
                 bootVars, monPc, stopCh, nodeVars, parse, lockVars, keepaliveLoops>>

\* two callers of Start() on one client, and the network
StartNext ==
  \/ Start
  \/ StartAgain
  \/ \E t \in {"K", "W"} :
       \/ AuthBegin(t)
       \/ AuthDial(t)
       \/ AuthWriteInit(t)
       \/ AuthReadChallenge(t)
       \/ AuthWriteResponse(t)
       \/ AuthReadAck(t)
       \/ AuthReturn(t)
       \/ GoKeepalive(t)
  \/ \E c \in ConnIds : NetworkCut(c)
  \/ Tick

StartSpec == Init /\ [][StartNext]_vars

\* C40: Client.Start() is idempotent with respect to the keepalive task:
\* after any number of Start() calls, sequential or concurrent, at most one
\* keepaliveLoop is running and at most one initial authenticate() has been
\* performed.
C40_StartIdempotent == keepaliveLoops <= 1 /\ initialAuths <= 1

====
